---- MODULE Spec2Model ----
(***************************************************************************)
(* Bot lifecycle orchestration of final_test_drivbot: the request handlers *)
(* of botController.js and manageBotController.js, the Mongoose Bot        *)
(* repository they write to and the 3Commas platform they command.         *)
(*                                                                         *)
(* A handler is a process: every `await` of the JavaScript code is a point *)
(* where another request may run, so a handler is cut into a step that     *)
(* validates and reads ("idle" -> ...), a step that makes the remote call  *)
(* ("remote" -> ...), and a step that writes the repository ("save" ->     *)
(* "done").  Code between two awaits runs atomically (one event loop turn).*)
(***************************************************************************)
EXTENDS Integers, FiniteSets, Sequences, TLC

VARIABLES users, credentials, bots, nextId, remote, req, sign, wire, validation,
          perf

vars ==
    <<users, credentials, bots, nextId, remote, req, sign, wire, validation,
      perf>>

\* the state of the bot handlers, which the signer and the credential
\* validator neither read nor write
botVars == <<users, credentials, bots, nextId, remote, req>>

----------------------------------------------------------------------------
(* Bounds *)

\* number of remote create calls that may be accepted (remote ids 1..MaxBots);
\* every local record is inserted after one, so it also bounds local ids
MaxBots == 2

Procs == {"p1", "p2"}

Names == {"A", "B"}

----------------------------------------------------------------------------
(* Values *)

Null == 0

NoDoc == [none |-> TRUE]

NoBody == [none |-> TRUE]

Statuses == {"running", "paused", "stopped", "error"}

RemoteOutcomes == {"success", "rejected", "unreachable"}

BotIds == 1..MaxBots

----------------------------------------------------------------------------
(* Request bodies *)

AlnumUpper == {"B", "T", "C", "U", "S", "D", "1"}

\* /^[A-Z0-9]+_[A-Z0-9]+$/.test(pair), pair a sequence of characters
PairFormatOk(pair) ==
    \E i \in 1..Len(pair) :
        /\ pair[i] = "_"
        /\ i > 1
        /\ i < Len(pair)
        /\ \A j \in (1..Len(pair)) \ {i} : pair[j] \in AlnumUpper

isValidEnum(val, options) == val \in options

\* a createBot body that passes every check of the handler; "" and 0 stand
\* for an absent field (both are falsy in JavaScript)
GoodBody(name, mso) ==
    [botName |-> name, direction |-> "long", botType |-> "single",
     pair |-> <<"B", "T", "C", "_", "U", "S", "D", "T">>,
     profitCurrency |-> "quote", baseOrderSize |-> 100,
     startOrderType |-> "market", takeProfitType |-> "total",
     targetProfitPercent |-> 3, maxSafetyOrders |-> mso]

\* maxSafetyOrders as submitted to createBot: absent, above the schema's max
MaxSafetyOrdersInputs == {0, 30}

BadBodies ==
         {[GoodBody("A", 0) EXCEPT !.botName = ""],
          [GoodBody("A", 0) EXCEPT !.baseOrderSize = 0],
          [GoodBody("A", 0) EXCEPT !.pair = <<"b", "t", "c", "_", "U">>],
          [GoodBody("A", 0) EXCEPT !.pair = <<"B", "T", "C", "U">>],
          [GoodBody("A", 0) EXCEPT !.direction = "sideways"],
          [GoodBody("A", 0) EXCEPT !.botType = "grid"],
          [GoodBody("A", 0) EXCEPT !.profitCurrency = "usd"],
          [GoodBody("A", 0) EXCEPT !.startOrderType = "stop"],
          [GoodBody("A", 0) EXCEPT !.takeProfitType = "none"],
          [GoodBody("A", 0) EXCEPT !.baseOrderSize = -1],
          [GoodBody("A", 0) EXCEPT !.targetProfitPercent = 101],
          [GoodBody("A", 0) EXCEPT !.targetProfitPercent = -1]}

\* the createBot requests: <<userId, body>>.  "u1" is the user who creates
\* bots; a request that fails a check is sent once per check ("ghost" is no
\* user, "u3" a user who has not connected an exchange account)
CreateRequests ==
    {<<"u1", GoodBody(n, m)>> : n \in Names, m \in MaxSafetyOrdersInputs}
    \cup {<<u, GoodBody("A", 0)>> : u \in {"ghost", "", "u3"}}
    \cup {<<"u1", b>> : b \in BadBodies}

\* the synchronous checks at the top of createBot, in the order of the code;
\* the result is the message of the 400 response, or "ok"
createBotValidation(userId, b) ==
    IF \/ userId = "" \/ b.botName = "" \/ b.direction = "" \/ b.botType = ""
       \/ b.pair = <<>> \/ b.profitCurrency = "" \/ b.baseOrderSize = 0
       \/ b.startOrderType = "" \/ b.takeProfitType = ""
       \/ b.targetProfitPercent = 0
    THEN "All required fields are missing. Please check your input."
    ELSE IF ~PairFormatOk(b.pair)
    THEN "Invalid pair format. Use format like BTC_USDT, ETH_USDT"
    ELSE IF ~isValidEnum(b.direction, {"long", "short"})
    THEN "Direction must be 'long' or 'short'"
    ELSE IF ~isValidEnum(b.botType, {"single", "multi"})
    THEN "Bot type must be 'single' or 'multi'"
    ELSE IF ~isValidEnum(b.profitCurrency, {"quote", "base"})
    THEN "Profit currency must be 'quote' or 'base'"
    ELSE IF ~isValidEnum(b.startOrderType, {"market", "limit"})
    THEN "Start order type must be 'market' or 'limit'"
    ELSE IF ~isValidEnum(b.takeProfitType, {"total", "step"})
    THEN "Take profit type must be 'total' or 'step'"
    ELSE IF b.baseOrderSize <= 0
    THEN "Base order size must be greater than 0"
    ELSE IF b.targetProfitPercent <= 0 \/ b.targetProfitPercent > 100
    THEN "Target profit percentage must be between 0 and 100"
    ELSE "ok"

\* `maxSafetyOrders || 5`
OrDefault(v, d) == IF v = 0 THEN d ELSE v

\* req.body of updateBot without userId: the fields are sent to 3Commas and
\* handed to findByIdAndUpdate as they are
UpdatePayloads ==
    {[maxSafetyOrders |-> 7], [maxSafetyOrders |-> 30], [status |-> "error"]}

\* the updateBot requests: <<userId, updateData>>
UpdateRequests ==
    {<<"u1", upd>> : upd \in UpdatePayloads}
    \cup {<<u, [maxSafetyOrders |-> 7]>> : u \in {"u2", "ghost", ""}}

\* the duplicateBot requests: <<userId, newName>>
DuplicateRequests ==
    {<<"u1", n>> : n \in Names \cup {""}}
    \cup {<<u, "B">> : u \in {"u2", "ghost", ""}}

\* the principals of pauseBot, startBot, emergencyStopBot and deleteBot
\* requests: validateOwnership treats every userId that is not the owner's
\* alike
LifecycleUsers == {"u1", "u2"}

\* the requests clients send when requests run one after another
SeqInputs ==
    [create |-> CreateRequests, users |-> LifecycleUsers,
     update |-> UpdateRequests, duplicate |-> DuplicateRequests]

\* the requests clients send when requests overlap: the owner creates "A",
\* duplicates a record as "B", renames a record to "A" and deletes records
RaceInputs ==
    [create |-> {<<"u1", GoodBody("A", 0)>>},
     users |-> {"u1"},
     update |-> {<<"u1", [name |-> "A"]>>},
     duplicate |-> {<<"u1", "B">>}]

\* the requests clients send when lifecycle requests overlap: the owner
\* creates bots and pauses, starts and emergency-stops them
LifecycleRaceInputs ==
    [create |-> {<<"u1", GoodBody(n, 0)>> : n \in Names},
     users |-> {"u1"}]

\* the requests clients send when lifecycle requests, updates and deletes
\* of one bot overlap: the owner creates "A", changes a configuration field
\* and pauses, starts, emergency-stops and deletes records
DeleteRaceInputs ==
    [create |-> {<<"u1", GoodBody("A", 0)>>},
     users |-> {"u1"},
     update |-> {<<"u1", [maxSafetyOrders |-> 7]>>}]

\* the requests whose handling is followed to its response: the owner
\* creates "A", changes a configuration field, duplicates a record as "B";
\* the owner and another user pause, start, emergency-stop and delete
\* records
ResponseInputs ==
    [create |-> {<<"u1", GoodBody("A", 0)>>},
     users |-> {"u1", "u2"},
     update |-> {<<"u1", [maxSafetyOrders |-> 7]>>},
     duplicate |-> {<<"u1", "B">>}]

\* the requests of the read endpoints: the owner creates bots; the owner,
\* another user and a client that sends no userId read them
ReadInputs ==
    [create |-> {<<"u1", GoodBody(n, 0)>> : n \in Names},
     users |-> {"u1", "u2", ""}]

\* the requests that submit identifying fields to updateBot: the owner
\* creates bots and sends updates that name another user as owner, another
\* remote bot id (one the platform did not issue for these records), or a
\* configuration field
AssignInputs ==
    [create |-> {<<"u1", GoodBody(n, 0)>> : n \in Names},
     update |-> {<<"u1", [user |-> "u2"]>>,
                 <<"u1", [threeCommasBotId |-> MaxBots + 1]>>,
                 <<"u1", [maxSafetyOrders |-> 7]>>}]

\* the requests of the owner who walks a bot through its lifecycle
ScenarioInputs ==
    [create |-> {<<"u1", GoodBody(n, 0)>> : n \in Names},
     users |-> {"u1"}]

----------------------------------------------------------------------------
(* The Bot repository (Mongoose model over one MongoDB collection) *)

\* botSchema: the paths of a stored document that the handlers read or write
\* (the other configuration paths are copied and overwritten exactly like
\* maxSafetyOrders)
BotPaths ==
    {"user", "name", "threeCommasBotId", "status", "configVersion",
     "maxSafetyOrders"}

\* the validators botSchema declares for a path
PathValid(path, v) ==
    CASE path = "status" -> v \in Statuses
      [] path = "maxSafetyOrders" -> v >= 1 /\ v <= 25
      [] OTHER -> TRUE

\* Bot.findOne({ user, name })
findOne(user, name) ==
    {b \in DOMAIN bots : bots[b].user = user /\ bots[b].name = name}

\* a collection whose unique index was never built
UniqueViolationNoIndex(id, doc) == FALSE

\* botSchema.index({ user: 1, name: 1 }, { unique: true }): would document
\* `doc` stored under `id` collide with another stored document
UniqueViolation(id, doc) ==
    \E b \in (DOMAIN bots) \ {id} :
        bots[b].user = doc.user /\ bots[b].name = doc.name

\* the collection after an insert / a replacement of document `id`
Put(id, doc) == [b \in (DOMAIN bots) \cup {id} |-> IF b = id THEN doc ELSE bots[b]]

\* the collection after document `id` is removed
Remove(id) == [b \in (DOMAIN bots) \ {id} |-> bots[b]]

\* the $set that findByIdAndUpdate builds from updateData: paths outside
\* the schema are dropped (strict mode)
ApplyUpdate(doc, upd) ==
    [path \in DOMAIN doc |->
        IF path \in DOMAIN upd THEN upd[path] ELSE doc[path]]

UpdateValid(upd) ==
    \A path \in (DOMAIN upd) \cap BotPaths : PathValid(path, upd[path])

----------------------------------------------------------------------------
(* The 3Commas platform: per remote bot id, the state it was last          *)
(* successfully commanded into ("none": id not yet issued).  The platform's *)
(* copy of a bot's configuration is not kept: a create or update call that *)
(* returns success is the platform carrying the submitted fields, and the   *)
(* request records that outcome.                                            *)

RemoteIds == 1..MaxBots

RemoteStates == {"none", "running", "paused", "stopped", "deleted"}

RemoteExists(t) == t \in RemoteIds /\ remote[t] \notin {"none", "deleted"}

FreeRemoteIds == {t \in RemoteIds : remote[t] = "none"}

\* the id the platform issues next
NewRemoteId == CHOOSE t \in FreeRemoteIds : \A u \in FreeRemoteIds : t <= u

----------------------------------------------------------------------------
(* Requests *)

Idle ==
    [pc |-> "idle", op |-> "none", userId |-> "", botId |-> 0,
     body |-> NoBody, doc |-> NoDoc, tcId |-> Null, outcome |-> "none",
     calls |-> 0, status |-> 0, message |-> "", error |-> "none"]

\* res.status(code).json({ message, error }) and the handler returns
Respond(p, r, code, message, error) ==
    req' = [req EXCEPT ![p] =
              [r EXCEPT !.pc = "done", !.status = code,
                        !.message = message, !.error = error]]

\* creations (createBot, duplicateBot) that passed their guards and have not
\* yet been answered by the platform
PendingCreates == {q \in Procs : req[q].pc = "remote" /\ req[q].op \in {"createBot", "duplicateBot"}}

\* the model stops accepting creations when the remote ids could run out
CanCreate == Cardinality(FreeRemoteIds) > Cardinality(PendingCreates)

\* no signing call, no outgoing call and no credential validation under way
NoSign == <<>>

NoWire == [pc |-> "none"]

NoValidation == [pc |-> "none"]

NoPerformance == [pc |-> "none"]

\* utils/encrypt: a symmetric cipher; a ciphertext is not its cleartext
\* and decrypts to it.  A key or secret is a sequence of tokens, null the
\* empty one
encrypt(text) == <<"aes">> \o text

NoCredential == [binanceApiKey |-> <<>>, binanceApiSecret |-> <<>>]

\* the server has connected to an empty bot collection; u1 and u2 have
\* connected their exchange account, u3 has not
ServerStarted ==
    /\ users = [u \in {"u1", "u2", "u3"} |->
                   CASE u = "u1" -> 101 [] u = "u2" -> 102 [] OTHER -> Null]
    /\ credentials =
          [u \in {"u1", "u2", "u3"} |->
              IF u = "u3" THEN NoCredential
              ELSE [binanceApiKey |-> encrypt(<<"key", u>>),
                    binanceApiSecret |-> encrypt(<<"secret", u>>)]]
    /\ bots = [b \in {} |-> NoDoc]
    /\ nextId = 1
    /\ remote = [t \in RemoteIds |-> "none"]
    /\ req = [p \in Procs |-> Idle]

Init ==
    /\ ServerStarted
    /\ sign = NoSign
    /\ wire = NoWire
    /\ validation = NoValidation
    /\ perf = NoPerformance

----------------------------------------------------------------------------
(* createBot (botController.js) *)

\* createBotBegin without the threeCommasAccountId check
createBotBeginNoAccountCheck(p, in) ==
    \E cr \in in.create :
        /\ req[p].pc = "idle"
        /\ CanCreate
        /\ LET userId == cr[1]
               body == cr[2]
               r == [Idle EXCEPT !.op = "createBot", !.userId = userId,
                                  !.body = body]
               v == createBotValidation(userId, body)
           IN  IF v # "ok"
               THEN Respond(p, r, 400, v, "none")
               ELSE IF userId \notin DOMAIN users
               THEN Respond(p, r, 404,
                        "User not found. Please check your user ID.", "none")
               ELSE IF findOne(userId, body.botName) # {}
               THEN Respond(p, r, 400,
                        "A bot with this name already exists. Please choose a different name.",
                        "none")
               ELSE req' = [req EXCEPT ![p] = [r EXCEPT !.pc = "remote"]]
        /\ UNCHANGED <<perf, credentials, sign, wire, validation, users, bots, nextId, remote>>

\* createBotBegin without the Bot.findOne name check
createBotBeginNoNameCheck(p, in) ==
    \E cr \in in.create :
        /\ req[p].pc = "idle"
        /\ CanCreate
        /\ LET userId == cr[1]
               body == cr[2]
               r == [Idle EXCEPT !.op = "createBot", !.userId = userId,
                                  !.body = body]
               v == createBotValidation(userId, body)
           IN  IF v # "ok"
               THEN Respond(p, r, 400, v, "none")
               ELSE IF userId \notin DOMAIN users
               THEN Respond(p, r, 404,
                        "User not found. Please check your user ID.", "none")
               ELSE IF users[userId] = Null
               THEN Respond(p, r, 400,
                        "No 3Commas account found. Please connect your Binance account first.",
                        "none")
               ELSE req' = [req EXCEPT ![p] = [r EXCEPT !.pc = "remote"]]
        /\ UNCHANGED <<perf, credentials, sign, wire, validation, users, bots, nextId, remote>>

\* validation, User.findOne, the linked-account check and the name check
createBotBegin(p, in) ==
    \E cr \in in.create :
        /\ req[p].pc = "idle"
        /\ CanCreate
        /\ LET userId == cr[1]
               body == cr[2]
               r == [Idle EXCEPT !.op = "createBot", !.userId = userId,
                                  !.body = body]
               v == createBotValidation(userId, body)
           IN  IF v # "ok"
               THEN Respond(p, r, 400, v, "none")
               ELSE IF userId \notin DOMAIN users
               THEN Respond(p, r, 404,
                        "User not found. Please check your user ID.", "none")
               ELSE IF users[userId] = Null
               THEN Respond(p, r, 400,
                        "No 3Commas account found. Please connect your Binance account first.",
                        "none")
               ELSE IF findOne(userId, body.botName) # {}
               THEN Respond(p, r, 400,
                        "A bot with this name already exists. Please choose a different name.",
                        "none")
               ELSE req' = [req EXCEPT ![p] = [r EXCEPT !.pc = "remote"]]
        /\ UNCHANGED <<perf, credentials, sign, wire, validation, users, bots, nextId, remote>>

\* createBotRemote that saves the record whatever the platform answered
createBotRemoteSavesAnyway(p) ==
    /\ req[p].pc = "remote"
    /\ req[p].op = "createBot"
    /\ \E out \in RemoteOutcomes :
        LET r == [req[p] EXCEPT !.outcome = out, !.calls = @ + 1] IN
        /\ remote' = IF out = "success"
                     THEN [remote EXCEPT ![NewRemoteId] = "running"]
                     ELSE remote
        /\ req' = [req EXCEPT ![p] =
               [r EXCEPT !.pc = "save",
                         !.tcId = IF out = "success" THEN NewRemoteId ELSE Null]]
    /\ UNCHANGED <<perf, credentials, sign, wire, validation, users, bots, nextId>>

\* axios.post(/ver1/bots, botPayload) with active: true
createBotRemote(p) ==
    /\ req[p].pc = "remote"
    /\ req[p].op = "createBot"
    /\ \E out \in RemoteOutcomes :
        LET r == [req[p] EXCEPT !.outcome = out, !.calls = @ + 1] IN
        IF out = "success"
        THEN /\ remote' = [remote EXCEPT ![NewRemoteId] = "running"]
             /\ req' = [req EXCEPT ![p] =
                    [r EXCEPT !.pc = "save", !.tcId = NewRemoteId]]
        ELSE /\ Respond(p, r, 400, "Failed to create bot in 3Commas", out)
             /\ UNCHANGED remote
    /\ UNCHANGED <<perf, credentials, sign, wire, validation, users, bots, nextId>>

\* the document `new Bot({...})` builds in createBot
createBotDocument(r) ==
    [user |-> r.userId, name |-> r.body.botName, threeCommasBotId |-> r.tcId,
     status |-> "running", configVersion |-> 1,
     maxSafetyOrders |-> OrDefault(r.body.maxSafetyOrders, 5)]

\* newBot.save() of a new document: the schema validators run first, then
\* the insert, which the unique index may refuse; either error reaches the
\* outer catch
InsertBot(p, doc, okMessage, errMessage) ==
    IF \E path \in DOMAIN doc : ~PathValid(path, doc[path])
    THEN /\ Respond(p, req[p], 500, errMessage, "ValidationError")
         /\ UNCHANGED <<bots, nextId>>
    ELSE IF UniqueViolation(nextId, doc)
    THEN /\ Respond(p, req[p], 500, errMessage, "E11000 duplicate key")
         /\ UNCHANGED <<bots, nextId>>
    ELSE /\ bots' = Put(nextId, doc)
         /\ nextId' = nextId + 1
         /\ Respond(p, [req[p] EXCEPT !.botId = nextId], 201, okMessage, "none")

createBotSave(p) ==
    /\ req[p].pc = "save"
    /\ req[p].op = "createBot"
    /\ InsertBot(p, createBotDocument(req[p]),
                 "Bot created successfully in 3Commas", "Bot creation failed")
    /\ UNCHANGED <<perf, credentials, sign, wire, validation, users, remote>>

----------------------------------------------------------------------------
(* pauseBot, startBot, emergencyStopBot, deleteBot (manageBotController)   *)

\* validateOwnership that only looks the record up
validateOwnershipExistsOnly(botId, userId) ==
    IF botId \notin DOMAIN bots THEN "Bot not found" ELSE "ok"

\* validateOwnership: the message of the Error it throws, or "ok"
validateOwnership(botId, userId) ==
    IF botId \notin DOMAIN bots
    THEN "Bot not found"
    ELSE IF bots[botId].user \notin DOMAIN users \/ bots[botId].user # userId
    THEN "Unauthorized access"
    ELSE "ok"

\* CommandRemote that sends the POST once more after a first failure
CommandRemoteRetrying(p, state, failMessage) ==
    /\ req[p].pc = "remote"
    /\ \E out \in RemoteOutcomes :
        LET r == [req[p] EXCEPT !.outcome = out, !.calls = @ + 1]
            t == req[p].doc.threeCommasBotId
        IN  /\ out = "success" => RemoteExists(t)
            /\ IF out = "success"
               THEN /\ remote' = [remote EXCEPT ![t] = state]
                    /\ req' = [req EXCEPT ![p] = [r EXCEPT !.pc = "save"]]
               ELSE /\ IF req[p].calls = 0
                       THEN req' = [req EXCEPT ![p] = r]
                       ELSE Respond(p, r, 400, failMessage, out)
                    /\ UNCHANGED remote
    /\ UNCHANGED <<perf, credentials, sign, wire, validation, users, bots, nextId>>

\* one of the body-less POSTs /pause, /start_new_deal, /panic_sell: on
\* success the platform is in `state`, on failure the handler answers 400
CommandRemote(p, state, failMessage) ==
    /\ req[p].pc = "remote"
    /\ \E out \in RemoteOutcomes :
        LET r == [req[p] EXCEPT !.outcome = out, !.calls = @ + 1]
            t == req[p].doc.threeCommasBotId
        IN  /\ out = "success" => RemoteExists(t)
            /\ IF out = "success"
               THEN /\ remote' = [remote EXCEPT ![t] = state]
                    /\ req' = [req EXCEPT ![p] = [r EXCEPT !.pc = "save"]]
               ELSE /\ Respond(p, r, 400, failMessage, out)
                    /\ UNCHANGED remote
    /\ UNCHANGED <<perf, credentials, sign, wire, validation, users, bots, nextId>>

\* SaveStatus that writes the whole document it read back, inserting it
\* when the stored one is gone
SaveStatusRecreates(p, status, okMessage) ==
    /\ req[p].pc = "save"
    /\ bots' = Put(req[p].botId, [req[p].doc EXCEPT !.status = status])
    /\ Respond(p, req[p], 200, okMessage, "none")
    /\ UNCHANGED <<perf, credentials, sign, wire, validation, users, nextId, remote>>

\* `bot.status = status; await bot.save()` on the document read earlier:
\* Mongoose sends $set of the modified paths only, nothing when the value
\* did not change, and throws DocumentNotFoundError when the document is
\* gone; the error reaches the outer catch (403)
SaveStatus(p, status, okMessage) ==
    /\ req[p].pc = "save"
    /\ LET id == req[p].botId IN
       IF id \notin DOMAIN bots
       THEN /\ Respond(p, req[p], 403, "No document found for query", "none")
            /\ UNCHANGED bots
       ELSE /\ bots' = IF req[p].doc.status = status
                       THEN bots
                       ELSE [bots EXCEPT ![id].status = status]
            /\ Respond(p, req[p], 200, okMessage, "none")
    /\ UNCHANGED <<perf, credentials, sign, wire, validation, users, nextId, remote>>

\* pauseBotBegin without the `bot.status !== "running"` guard
pauseBotBeginUnguarded(p, in) ==
    \E userId \in in.users, botId \in BotIds :
        /\ req[p].pc = "idle"
        /\ LET r == [Idle EXCEPT !.op = "pauseBot", !.userId = userId,
                                  !.botId = botId]
               v == validateOwnership(botId, userId)
           IN  IF v # "ok"
               THEN Respond(p, r, 403, v, "none")
               ELSE IF bots[botId].threeCommasBotId = Null
               THEN Respond(p, [r EXCEPT !.doc = bots[botId]], 400,
                            "Bot not linked to 3Commas", "none")
               ELSE req' = [req EXCEPT ![p] =
                        [r EXCEPT !.pc = "remote", !.doc = bots[botId]]]
        /\ UNCHANGED <<perf, credentials, sign, wire, validation, users, bots, nextId, remote>>

pauseBotBegin(p, in) ==
    \E userId \in in.users, botId \in BotIds :
        /\ req[p].pc = "idle"
        /\ LET r == [Idle EXCEPT !.op = "pauseBot", !.userId = userId,
                                  !.botId = botId]
               v == validateOwnership(botId, userId)
           IN  IF v # "ok"
               THEN Respond(p, r, 403, v, "none")
               ELSE IF bots[botId].status # "running"
               THEN Respond(p, [r EXCEPT !.doc = bots[botId]], 400,
                            "Bot is not currently running", "none")
               ELSE IF bots[botId].threeCommasBotId = Null
               THEN Respond(p, [r EXCEPT !.doc = bots[botId]], 400,
                            "Bot not linked to 3Commas", "none")
               ELSE req' = [req EXCEPT ![p] =
                        [r EXCEPT !.pc = "remote", !.doc = bots[botId]]]
        /\ UNCHANGED <<perf, credentials, sign, wire, validation, users, bots, nextId, remote>>

pauseBotRemote(p) ==
    /\ req[p].op = "pauseBot"
    /\ CommandRemote(p, "paused", "Failed to pause bot in 3Commas")

\* pauseBotSave writing the status of emergencyStopBot
pauseBotSaveStopped(p) ==
    /\ req[p].op = "pauseBot"
    /\ SaveStatus(p, "stopped", "Bot paused successfully")

pauseBotSave(p) ==
    /\ req[p].op = "pauseBot"
    /\ SaveStatus(p, "paused", "Bot paused successfully")

\* startBotBegin that only refuses a running bot
startBotBeginFromError(p, in) ==
    \E userId \in in.users, botId \in BotIds :
        /\ req[p].pc = "idle"
        /\ LET r == [Idle EXCEPT !.op = "startBot", !.userId = userId,
                                  !.botId = botId]
               v == validateOwnership(botId, userId)
           IN  IF v # "ok"
               THEN Respond(p, r, 403, v, "none")
               ELSE IF bots[botId].status = "running"
               THEN Respond(p, [r EXCEPT !.doc = bots[botId]], 400,
                            "Bot must be paused or stopped to start", "none")
               ELSE IF bots[botId].threeCommasBotId = Null
               THEN Respond(p, [r EXCEPT !.doc = bots[botId]], 400,
                            "Bot not linked to 3Commas", "none")
               ELSE req' = [req EXCEPT ![p] =
                        [r EXCEPT !.pc = "remote", !.doc = bots[botId]]]
        /\ UNCHANGED <<perf, credentials, sign, wire, validation, users, bots, nextId, remote>>

startBotBegin(p, in) ==
    \E userId \in in.users, botId \in BotIds :
        /\ req[p].pc = "idle"
        /\ LET r == [Idle EXCEPT !.op = "startBot", !.userId = userId,
                                  !.botId = botId]
               v == validateOwnership(botId, userId)
           IN  IF v # "ok"
               THEN Respond(p, r, 403, v, "none")
               ELSE IF bots[botId].status # "paused" /\ bots[botId].status # "stopped"
               THEN Respond(p, [r EXCEPT !.doc = bots[botId]], 400,
                            "Bot must be paused or stopped to start", "none")
               ELSE IF bots[botId].threeCommasBotId = Null
               THEN Respond(p, [r EXCEPT !.doc = bots[botId]], 400,
                            "Bot not linked to 3Commas", "none")
               ELSE req' = [req EXCEPT ![p] =
                        [r EXCEPT !.pc = "remote", !.doc = bots[botId]]]
        /\ UNCHANGED <<perf, credentials, sign, wire, validation, users, bots, nextId, remote>>

startBotRemote(p) ==
    /\ req[p].op = "startBot"
    /\ CommandRemote(p, "running", "Failed to start bot in 3Commas")

startBotSave(p) ==
    /\ req[p].op = "startBot"
    /\ SaveStatus(p, "running", "Bot started successfully")

\* emergencyStopBotBegin that refuses a bot that is already stopped
emergencyStopBotBeginGuarded(p, in) ==
    \E userId \in in.users, botId \in BotIds :
        /\ req[p].pc = "idle"
        /\ LET r == [Idle EXCEPT !.op = "emergencyStopBot", !.userId = userId,
                                  !.botId = botId]
               v == validateOwnership(botId, userId)
           IN  IF v # "ok"
               THEN Respond(p, r, 403, v, "none")
               ELSE IF bots[botId].status = "stopped"
               THEN Respond(p, [r EXCEPT !.doc = bots[botId]], 400,
                            "Bot is already stopped", "none")
               ELSE IF bots[botId].threeCommasBotId = Null
               THEN Respond(p, [r EXCEPT !.doc = bots[botId]], 400,
                            "Bot not linked to 3Commas", "none")
               ELSE req' = [req EXCEPT ![p] =
                        [r EXCEPT !.pc = "remote", !.doc = bots[botId]]]
        /\ UNCHANGED <<perf, credentials, sign, wire, validation, users, bots, nextId, remote>>

emergencyStopBotBegin(p, in) ==
    \E userId \in in.users, botId \in BotIds :
        /\ req[p].pc = "idle"
        /\ LET r == [Idle EXCEPT !.op = "emergencyStopBot", !.userId = userId,
                                  !.botId = botId]
               v == validateOwnership(botId, userId)
           IN  IF v # "ok"
               THEN Respond(p, r, 403, v, "none")
               ELSE IF bots[botId].threeCommasBotId = Null
               THEN Respond(p, [r EXCEPT !.doc = bots[botId]], 400,
                            "Bot not linked to 3Commas", "none")
               ELSE req' = [req EXCEPT ![p] =
                        [r EXCEPT !.pc = "remote", !.doc = bots[botId]]]
        /\ UNCHANGED <<perf, credentials, sign, wire, validation, users, bots, nextId, remote>>

emergencyStopBotRemote(p) ==
    /\ req[p].op = "emergencyStopBot"
    /\ CommandRemote(p, "stopped", "Failed to emergency stop bot in 3Commas")

emergencyStopBotSave(p) ==
    /\ req[p].op = "emergencyStopBot"
    /\ SaveStatus(p, "stopped", "Bot emergency stopped successfully")

\* deleteBot: the remote delete is skipped for a record without remote id
deleteBotBegin(p, in) ==
    \E userId \in in.users, botId \in BotIds :
        /\ req[p].pc = "idle"
        /\ LET r == [Idle EXCEPT !.op = "deleteBot", !.userId = userId,
                                  !.botId = botId]
               v == validateOwnership(botId, userId)
           IN  IF v # "ok"
               THEN Respond(p, r, 403, v, "none")
               ELSE req' = [req EXCEPT ![p] =
                        [r EXCEPT !.pc = IF bots[botId].threeCommasBotId # Null
                                         THEN "remote" ELSE "save",
                                  !.doc = bots[botId]]]
        /\ UNCHANGED <<perf, credentials, sign, wire, validation, users, bots, nextId, remote>>

\* deleteBotRemote that answers 400 on a remote failure, as the other
\* handlers do
deleteBotRemoteBlocking(p) ==
    /\ req[p].pc = "remote"
    /\ req[p].op = "deleteBot"
    /\ \E out \in RemoteOutcomes :
        LET r == [req[p] EXCEPT !.outcome = out, !.calls = @ + 1]
            t == req[p].doc.threeCommasBotId
        IN  /\ out = "success" => RemoteExists(t)
            /\ IF out = "success"
               THEN /\ remote' = [remote EXCEPT ![t] = "deleted"]
                    /\ req' = [req EXCEPT ![p] = [r EXCEPT !.pc = "save"]]
               ELSE /\ Respond(p, r, 400, "Failed to delete bot in 3Commas", out)
                    /\ UNCHANGED remote
    /\ UNCHANGED <<perf, credentials, sign, wire, validation, users, bots, nextId>>

\* axios.delete(/ver1/bots/:id): a failure is logged and the handler goes on
deleteBotRemote(p) ==
    /\ req[p].pc = "remote"
    /\ req[p].op = "deleteBot"
    /\ \E out \in RemoteOutcomes :
        LET t == req[p].doc.threeCommasBotId IN
        /\ out = "success" => RemoteExists(t)
        /\ remote' = IF out = "success"
                     THEN [remote EXCEPT ![t] = "deleted"]
                     ELSE remote
        /\ req' = [req EXCEPT ![p] =
                     [@ EXCEPT !.pc = "save", !.outcome = out, !.calls = @ + 1]]
    /\ UNCHANGED <<perf, credentials, sign, wire, validation, users, bots, nextId>>

\* deleteBotSave that answers without removing the document
deleteBotSaveKeeps(p) ==
    /\ req[p].pc = "save"
    /\ req[p].op = "deleteBot"
    /\ Respond(p, req[p], 200, "Bot deleted successfully", "none")
    /\ UNCHANGED <<perf, credentials, sign, wire, validation, users, bots, nextId, remote>>

\* Bot.findByIdAndDelete(botId): removes the document if it is still there
deleteBotSave(p) ==
    /\ req[p].pc = "save"
    /\ req[p].op = "deleteBot"
    /\ bots' = Remove(req[p].botId)
    /\ Respond(p, req[p], 200, "Bot deleted successfully", "none")
    /\ UNCHANGED <<perf, credentials, sign, wire, validation, users, nextId, remote>>

----------------------------------------------------------------------------
(* updateBot, duplicateBot (botController.js) *)

updateBotBegin(p, in) ==
    \E ur \in in.update, botId \in BotIds :
        /\ req[p].pc = "idle"
        /\ LET userId == ur[1]
               updateData == ur[2]
               r == [Idle EXCEPT !.op = "updateBot", !.userId = userId,
                                  !.botId = botId, !.body = updateData]
           IN  IF userId = ""
               THEN Respond(p, r, 400, "userId is required", "none")
               ELSE IF userId \notin DOMAIN users
               THEN Respond(p, r, 404, "User not found", "none")
               ELSE IF botId \notin DOMAIN bots \/ bots[botId].user # userId
               THEN Respond(p, r, 404, "Bot not found or access denied", "none")
               ELSE IF bots[botId].threeCommasBotId = Null
               THEN Respond(p, [r EXCEPT !.doc = bots[botId]], 400,
                            "Bot not linked to 3Commas", "none")
               ELSE req' = [req EXCEPT ![p] =
                        [r EXCEPT !.pc = "remote", !.doc = bots[botId]]]
        /\ UNCHANGED <<perf, credentials, sign, wire, validation, users, bots, nextId, remote>>

\* axios.patch(/ver1/bots/:id, updateData): on success the remote bot
\* carries the submitted fields (outcome = "success")
updateBotRemote(p) ==
    /\ req[p].pc = "remote"
    /\ req[p].op = "updateBot"
    /\ \E out \in RemoteOutcomes :
        LET r == [req[p] EXCEPT !.outcome = out, !.calls = @ + 1]
            t == req[p].doc.threeCommasBotId
        IN  /\ out = "success" => RemoteExists(t)
            /\ IF out = "success"
               THEN req' = [req EXCEPT ![p] = [r EXCEPT !.pc = "save"]]
               ELSE Respond(p, r, 400, "Failed to update bot in 3Commas", out)
    /\ UNCHANGED <<perf, credentials, sign, wire, validation, users, bots, nextId, remote>>

\* Bot.findByIdAndUpdate(botId, updateData, { new: true, runValidators: true }):
\* a validator or the unique index may refuse the update (outer catch, 500);
\* a document that is gone gives `bot: null` in a 200 response
updateBotSave(p) ==
    /\ req[p].pc = "save"
    /\ req[p].op = "updateBot"
    /\ LET id == req[p].botId
           upd == req[p].body
       IN  IF ~UpdateValid(upd)
           THEN /\ Respond(p, req[p], 500, "Failed to update bot", "ValidationError")
                /\ UNCHANGED bots
           ELSE IF id \notin DOMAIN bots
           THEN /\ Respond(p, req[p], 200, "Bot updated successfully", "none")
                /\ UNCHANGED bots
           ELSE IF UniqueViolation(id, ApplyUpdate(bots[id], upd))
           THEN /\ Respond(p, req[p], 500, "Failed to update bot",
                           "E11000 duplicate key")
                /\ UNCHANGED bots
           ELSE /\ bots' = Put(id, ApplyUpdate(bots[id], upd))
                /\ Respond(p, req[p], 200, "Bot updated successfully", "none")
    /\ UNCHANGED <<perf, credentials, sign, wire, validation, users, nextId, remote>>

duplicateBotBegin(p, in) ==
    \E dr \in in.duplicate, botId \in BotIds :
        /\ req[p].pc = "idle"
        /\ CanCreate
        /\ LET userId == dr[1]
               newName == dr[2]
               r == [Idle EXCEPT !.op = "duplicateBot", !.userId = userId,
                                  !.botId = botId,
                                  !.body = [newName |-> newName]]
           IN  IF userId = "" \/ newName = ""
               THEN Respond(p, r, 400, "userId and newName are required", "none")
               ELSE IF userId \notin DOMAIN users
               THEN Respond(p, r, 404, "User not found", "none")
               ELSE IF botId \notin DOMAIN bots \/ bots[botId].user # userId
               THEN Respond(p, r, 404, "Bot not found or access denied", "none")
               ELSE IF findOne(userId, newName) # {}
               THEN Respond(p, [r EXCEPT !.doc = bots[botId]], 400,
                        "A bot with this name already exists. Please choose a different name.",
                        "none")
               ELSE req' = [req EXCEPT ![p] =
                        [r EXCEPT !.pc = "remote", !.doc = bots[botId]]]
        /\ UNCHANGED <<perf, credentials, sign, wire, validation, users, bots, nextId, remote>>

\* duplicateBotRemote that goes on to the insert whatever the platform
\* answered
duplicateBotRemoteSavesAnyway(p) ==
    /\ req[p].pc = "remote"
    /\ req[p].op = "duplicateBot"
    /\ \E out \in RemoteOutcomes :
        LET r == [req[p] EXCEPT !.outcome = out, !.calls = @ + 1] IN
        /\ remote' = IF out = "success"
                     THEN [remote EXCEPT ![NewRemoteId] = "paused"]
                     ELSE remote
        /\ req' = [req EXCEPT ![p] =
               [r EXCEPT !.pc = "save",
                         !.tcId = IF out = "success" THEN NewRemoteId ELSE Null]]
    /\ UNCHANGED <<perf, credentials, sign, wire, validation, users, bots, nextId>>

\* axios.post(/ver1/bots, botPayload) with the source's configuration and
\* active: false
duplicateBotRemote(p) ==
    /\ req[p].pc = "remote"
    /\ req[p].op = "duplicateBot"
    /\ \E out \in RemoteOutcomes :
        LET r == [req[p] EXCEPT !.outcome = out, !.calls = @ + 1] IN
        IF out = "success"
        THEN /\ remote' = [remote EXCEPT ![NewRemoteId] = "paused"]
             /\ req' = [req EXCEPT ![p] =
                    [r EXCEPT !.pc = "save", !.tcId = NewRemoteId]]
        ELSE /\ Respond(p, r, 400, "Failed to duplicate bot in 3Commas", out)
             /\ UNCHANGED remote
    /\ UNCHANGED <<perf, credentials, sign, wire, validation, users, bots, nextId>>

\* duplicateBotDocument that copies the source's version and status
duplicateBotDocumentCopy(r) ==
    [user |-> r.userId, name |-> r.body.newName, threeCommasBotId |-> r.tcId,
     status |-> r.doc.status, configVersion |-> r.doc.configVersion,
     maxSafetyOrders |-> r.doc.maxSafetyOrders]

\* the document `new Bot({...})` builds in duplicateBot from originalBot
duplicateBotDocument(r) ==
    [user |-> r.userId, name |-> r.body.newName, threeCommasBotId |-> r.tcId,
     status |-> "paused", configVersion |-> r.doc.configVersion + 1,
     maxSafetyOrders |-> r.doc.maxSafetyOrders]

duplicateBotSave(p) ==
    /\ req[p].pc = "save"
    /\ req[p].op = "duplicateBot"
    /\ InsertBot(p, duplicateBotDocument(req[p]),
                 "Bot duplicated successfully", "Bot duplication failed")
    /\ UNCHANGED <<perf, credentials, sign, wire, validation, users, remote>>

----------------------------------------------------------------------------
(* Read endpoints (botController.js, manageBotController) *)

\* the checks getBotStats (with a bot id), getBotPerformance and getBotDeals
\* make before their GET
ReadGuards(p, in, op) ==
    \E userId \in in.users, botId \in BotIds :
        /\ req[p].pc = "idle"
        /\ LET r == [Idle EXCEPT !.op = op, !.userId = userId, !.botId = botId]
           IN  IF userId = ""
               THEN Respond(p, r, 400, "userId is required", "none")
               ELSE IF userId \notin DOMAIN users \/ users[userId] = Null
               THEN Respond(p, r, 400,
                        "No 3Commas account found. Please connect your Binance account first.",
                        "none")
               ELSE IF botId \notin DOMAIN bots \/ bots[botId].user # userId
               THEN Respond(p, r, 404, "Bot not found or access denied", "none")
               ELSE IF bots[botId].threeCommasBotId = Null
               THEN Respond(p, [r EXCEPT !.doc = bots[botId]], 400,
                            "Bot not linked to 3Commas", "none")
               ELSE req' = [req EXCEPT ![p] =
                        [r EXCEPT !.pc = "remote", !.doc = bots[botId]]]
        /\ UNCHANGED <<perf, credentials, sign, wire, validation, users, bots, nextId, remote>>

\* axios.get of the remote bot or its deals: 200 with the record and the
\* remote data, or 400 with the remote error
ReadRemote(p, okMessage, failMessage) ==
    /\ req[p].pc = "remote"
    /\ \E out \in RemoteOutcomes :
        LET r == [req[p] EXCEPT !.outcome = out, !.calls = @ + 1] IN
        /\ out = "success" => RemoteExists(req[p].doc.threeCommasBotId)
        /\ IF out = "success"
           THEN Respond(p, r, 200, okMessage, "none")
           ELSE Respond(p, r, 400, failMessage, out)
    /\ UNCHANGED <<perf, credentials, sign, wire, validation, users, bots, nextId, remote>>

getBotStatsBegin(p, in) ==
    /\ req[p].pc = "idle"
    /\ ReadGuards(p, in, "getBotStats")

getBotStatsRemote(p) ==
    /\ req[p].op = "getBotStats"
    /\ ReadRemote(p, "Bot statistics retrieved successfully",
                  "Failed to get bot statistics from 3Commas")

getBotPerformanceBegin(p, in) ==
    /\ req[p].pc = "idle"
    /\ ReadGuards(p, in, "getBotPerformance")

getBotPerformanceRemote(p) ==
    /\ req[p].op = "getBotPerformance"
    /\ ReadRemote(p, "Bot performance retrieved successfully",
                  "Failed to get bot deals from 3Commas")

getBotDealsBegin(p, in) ==
    /\ req[p].pc = "idle"
    /\ ReadGuards(p, in, "getBotDeals")

getBotDealsRemote(p) ==
    /\ req[p].op = "getBotDeals"
    /\ ReadRemote(p, "Bot deals retrieved successfully",
                  "Failed to get bot deals from 3Commas")

\* getBotDetails: the remote data is optional, the record is returned anyway
getBotDetailsBegin(p, in) ==
    \E userId \in in.users, botId \in BotIds :
        /\ req[p].pc = "idle"
        /\ LET r == [Idle EXCEPT !.op = "getBotDetails", !.userId = userId,
                                  !.botId = botId]
           IN  IF userId = ""
               THEN Respond(p, r, 400, "User ID is required", "none")
               ELSE IF userId \notin DOMAIN users
               THEN Respond(p, r, 404, "User not found", "none")
               ELSE IF botId \notin DOMAIN bots \/ bots[botId].user # userId
               THEN Respond(p, r, 404, "Bot not found or access denied", "none")
               ELSE IF bots[botId].threeCommasBotId = Null
               THEN Respond(p, [r EXCEPT !.doc = bots[botId]], 200,
                            "Bot details fetched successfully", "none")
               ELSE req' = [req EXCEPT ![p] =
                        [r EXCEPT !.pc = "remote", !.doc = bots[botId]]]
        /\ UNCHANGED <<perf, credentials, sign, wire, validation, users, bots, nextId, remote>>

getBotDetailsRemote(p) ==
    /\ req[p].pc = "remote"
    /\ req[p].op = "getBotDetails"
    /\ \E out \in RemoteOutcomes :
        LET r == [req[p] EXCEPT !.outcome = out, !.calls = @ + 1] IN
        /\ out = "success" => RemoteExists(req[p].doc.threeCommasBotId)
        /\ Respond(p, r, 200, "Bot details fetched successfully", "none")
    /\ UNCHANGED <<perf, credentials, sign, wire, validation, users, bots, nextId, remote>>

\* verifyBotCreation reads req.params.botId only: the userId of the model's
\* request is the client who sent it, which the handler never looks at
verifyBotCreationBegin(p, in) ==
    \E userId \in in.users, botId \in BotIds :
        /\ req[p].pc = "idle"
        /\ LET r == [Idle EXCEPT !.op = "verifyBotCreation", !.userId = userId,
                                  !.botId = botId]
           IN  IF botId \notin DOMAIN bots
               THEN Respond(p, r, 404, "Bot not found", "none")
               ELSE IF bots[botId].threeCommasBotId = Null
               THEN Respond(p, [r EXCEPT !.doc = bots[botId]], 400,
                            "Bot was not created in 3Commas", "none")
               ELSE req' = [req EXCEPT ![p] =
                        [r EXCEPT !.pc = "remote", !.doc = bots[botId]]]
        /\ UNCHANGED <<perf, credentials, sign, wire, validation, users, bots, nextId, remote>>

verifyBotCreationRemote(p) ==
    /\ req[p].op = "verifyBotCreation"
    /\ ReadRemote(p, "Bot verified in 3Commas",
                  "Bot not found in 3Commas")

----------------------------------------------------------------------------
(* Environment *)

\* the status and message of the outer catch block of each handler
CatchStatus(op) ==
    IF op \in {"createBot", "updateBot", "duplicateBot"} THEN 500 ELSE 403

CatchMessage(op) ==
    CASE op = "createBot" -> "Bot creation failed"
      [] op = "updateBot" -> "Failed to update bot"
      [] op = "duplicateBot" -> "Bot duplication failed"
      [] OTHER -> "StorageError"

\* an outer catch that logs the storage error and sends nothing: the
\* handler ends with no response
RepositoryWriteThrowsUnanswered(p) ==
    /\ req[p].pc = "save"
    /\ req' = [req EXCEPT ![p] = Idle]
    /\ UNCHANGED <<perf, credentials, sign, wire, validation, users, bots, nextId, remote>>

\* the repository write of a handler (save, findByIdAndUpdate,
\* findByIdAndDelete) rejects with a storage error: nothing is written and
\* the outer catch answers
RepositoryWriteThrows(p) ==
    /\ req[p].pc = "save"
    /\ Respond(p, req[p], CatchStatus(req[p].op), CatchMessage(req[p].op),
               "StorageError")
    /\ UNCHANGED <<perf, credentials, sign, wire, validation, users, bots, nextId, remote>>

\* the response is delivered; the process can serve the next request
Finish(p) ==
    /\ req[p].pc = "done"
    /\ req' = [req EXCEPT ![p] = Idle]
    /\ UNCHANGED <<perf, credentials, sign, wire, validation, users, bots, nextId, remote>>

----------------------------------------------------------------------------
(* connectBinance and disconnectBinance (binanceController.js).  The user  *)
(* document is users (the linked account id) and credentials (the stored   *)
(* key and secret).                                                        *)

\* the account ids the platform issues for /ver1/accounts/new
AccountIds == {201, 202}

\* the /connect requests: <<userId, apiKey, apiSecret>>; u4 has no user
\* document yet, "" is a field the client left out
ConnectRequests ==
    {<<"u1", <<"k1">>, <<"s1">>>>, <<"u3", <<"k3">>, <<"s3">>>>,
     <<"u4", <<"k4">>, <<"s4">>>>, <<"u3", <<>>, <<"s3">>>>,
     <<"", <<"k1">>, <<"s1">>>>}

\* the /disconnect requests: userId
DisconnectRequests == {"u1", "u3", "u5", ""}

\* the requests of the connection endpoints and the creations that follow
ConnectInputs ==
    [create |-> {<<u, GoodBody("A", 0)>> : u \in {"u1", "u3", "u4"}},
     connect |-> ConnectRequests,
     disconnect |-> DisconnectRequests]

\* User.findOneAndUpdate({ userId }, update, { upsert: true })
UpsertUser(f, userId, value) ==
    [u \in (DOMAIN f) \cup {userId} |-> IF u = userId THEN value ELSE f[u]]

\* the field check, then validateBinanceAPI is awaited
connectBinanceBegin(p, in) ==
    \E cn \in in.connect :
        /\ req[p].pc = "idle"
        /\ LET r == [Idle EXCEPT !.op = "connectBinance", !.userId = cn[1],
                                  !.body = [apiKey |-> cn[2],
                                            apiSecret |-> cn[3]]]
           IN  IF cn[1] = "" \/ cn[2] = <<>> \/ cn[3] = <<>>
               THEN Respond(p, r, 400, "Missing fields", "none")
               ELSE req' = [req EXCEPT ![p] = [r EXCEPT !.pc = "validate"]]
        /\ UNCHANGED <<perf, credentials, sign, wire, validation, users, bots, nextId, remote>>

\* binanceValidation.passed decides; the request is then signed and sent
connectBinanceValidate(p) ==
    /\ req[p].pc = "validate"
    /\ req[p].op = "connectBinance"
    /\ \E passed \in BOOLEAN :
          IF ~passed
          THEN Respond(p, req[p], 400, "Binance API validation failed", "none")
          ELSE req' = [req EXCEPT ![p].pc = "remote",
                                  ![p].doc = [passed |-> TRUE]]
    /\ UNCHANGED <<perf, credentials, sign, wire, validation, users, bots, nextId, remote>>

\* connectBinanceRemote as the handler once was: when the account call
\* fails without a response body the keys are stored all the same
connectBinanceRemoteStoresOnFailure(p) ==
    /\ req[p].pc = "remote"
    /\ req[p].op = "connectBinance"
    /\ \E out \in RemoteOutcomes, id \in AccountIds :
        LET r == [req[p] EXCEPT !.outcome = out, !.calls = @ + 1] IN
        IF out = "success"
        THEN /\ req' = [req EXCEPT ![p] = [r EXCEPT !.pc = "save", !.tcId = id]]
             /\ UNCHANGED <<users, credentials>>
        ELSE /\ Respond(p, r, 400, "Invalid API key or secret", out)
             /\ users' = UpsertUser(users, req[p].userId, Null)
             /\ credentials' =
                   UpsertUser(credentials, req[p].userId,
                       [binanceApiKey |-> encrypt(req[p].body.apiKey),
                        binanceApiSecret |-> encrypt(req[p].body.apiSecret)])
    /\ UNCHANGED <<perf, sign, wire, validation, bots, nextId, remote>>

\* POST /ver1/accounts/new: the id of the account, or the 400 answer
connectBinanceRemote(p) ==
    /\ req[p].pc = "remote"
    /\ req[p].op = "connectBinance"
    /\ \E out \in RemoteOutcomes, id \in AccountIds :
        LET r == [req[p] EXCEPT !.outcome = out, !.calls = @ + 1] IN
        IF out = "success"
        THEN req' = [req EXCEPT ![p] = [r EXCEPT !.pc = "save", !.tcId = id]]
        ELSE Respond(p, r, 400, "Failed to create 3Commas account", out)
    /\ UNCHANGED <<perf, credentials, sign, wire, validation, users, bots, nextId, remote>>

\* encrypt, User.findOneAndUpdate with upsert, res.json; a repository
\* error reaches the outer catch (500)
connectBinanceSave(p) ==
    /\ req[p].pc = "save"
    /\ req[p].op = "connectBinance"
    /\ \E thrown \in BOOLEAN :
          IF thrown
          THEN /\ Respond(p, req[p], 500, "Internal server error",
                          "StorageError")
               /\ UNCHANGED <<users, credentials>>
          ELSE /\ users' = UpsertUser(users, req[p].userId, req[p].tcId)
               /\ credentials' =
                     UpsertUser(credentials, req[p].userId,
                         [binanceApiKey |-> encrypt(req[p].body.apiKey),
                          binanceApiSecret |-> encrypt(req[p].body.apiSecret)])
               /\ Respond(p, req[p], 200, "Binance connected successfully",
                          "none")
    /\ UNCHANGED <<perf, sign, wire, validation, bots, nextId, remote>>

disconnectBinanceBegin(p, in) ==
    \E userId \in in.disconnect :
        /\ req[p].pc = "idle"
        /\ LET r == [Idle EXCEPT !.op = "disconnectBinance",
                                  !.userId = userId]
           IN  IF userId = ""
               THEN Respond(p, r, 400, "Missing userId", "none")
               ELSE req' = [req EXCEPT ![p] = [r EXCEPT !.pc = "save"]]
        /\ UNCHANGED <<perf, credentials, sign, wire, validation, users, bots, nextId, remote>>

\* User.findOneAndUpdate({ userId }, { binanceApiKey: null,
\* binanceApiSecret: null }): no upsert, threeCommasAccountId is not named
disconnectBinanceSave(p) ==
    /\ req[p].pc = "save"
    /\ req[p].op = "disconnectBinance"
    /\ \E thrown \in BOOLEAN :
          IF thrown
          THEN /\ Respond(p, req[p], 500, "Internal server error",
                          "StorageError")
               /\ UNCHANGED credentials
          ELSE /\ credentials' =
                     IF req[p].userId \in DOMAIN credentials
                     THEN [credentials EXCEPT ![req[p].userId] = NoCredential]
                     ELSE credentials
               /\ Respond(p, req[p], 200, "Binance disconnected", "none")
    /\ UNCHANGED <<perf, sign, wire, validation, users, bots, nextId, remote>>

----------------------------------------------------------------------------
(* Request signing (botController.js, manageBotController).  A string is   *)
(* the sequence of its characters; "" is the empty sequence.               *)

\* config.threeCommas.apiPrefix
API_PREFIX == <<"/", "p", "u", "b", "l", "i", "c", "/", "a", "p", "i">>

\* config.threeCommas.apiSecret
THREE_COMMAS_API_SECRET == <<"s", "e", "c", "r", "e", "t">>

\* buildStringToSign that puts the "?" in whether or not there is a query
buildStringToSignAlwaysQuery(path, queryString, bodyString) ==
    API_PREFIX \o path \o <<"?">> \o queryString \o bodyString

\* buildStringToSign that leaves the body out
buildStringToSignNoBody(path, queryString, bodyString) ==
    LET qsPart == IF queryString # <<>> THEN <<"?">> \o queryString ELSE <<>>
    IN  API_PREFIX \o path \o qsPart

\* `${API_PREFIX}${path}${qsPart}${bodyPart}`; a string is truthy when it
\* is not empty
buildStringToSign(path, queryString, bodyString) ==
    LET qsPart == IF queryString # <<>> THEN <<"?">> \o queryString ELSE <<>>
        bodyPart == IF bodyString # <<>> THEN bodyString ELSE <<>>
    IN  API_PREFIX \o path \o qsPart \o bodyPart

\* crypto.createHmac("sha256", key).update(message).digest("hex"): the
\* digest is a function of key and message
Hmac(key, message) == [alg |-> "sha256", key |-> key, message |-> message]

\* the arguments createSignatureFromParts is called with
Paths == {<<"/", "b">>, <<"/", "b", "/", "1">>}

Queries == {<<>>, <<"l", "=", "5">>}

Bodies == {<<>>, <<"{", "}">>, <<"{", "a", "}">>, <<"?", "l", "=", "5">>}

Calls == {1, 2}

SignInit ==
    /\ ServerStarted
    /\ sign \in [Calls -> {[pc |-> "called", path |-> pa, query |-> q,
                            body |-> b, stringToSign |-> <<>>,
                            signature |-> Hmac(<<>>, <<>>)] :
                               pa \in Paths, q \in Queries, b \in Bodies}]
    /\ wire = NoWire
    /\ validation = NoValidation
    /\ perf = NoPerformance

createSignatureFromParts(c) ==
    /\ sign[c].pc = "called"
    /\ LET stringToSign ==
               buildStringToSign(sign[c].path, sign[c].query, sign[c].body)
       IN  sign' = [sign EXCEPT ![c] =
                      [@ EXCEPT !.pc = "returned",
                                !.stringToSign = stringToSign,
                                !.signature = Hmac(THREE_COMMAS_API_SECRET,
                                                   stringToSign)]]
    /\ UNCHANGED <<perf, botVars, wire, validation>>

\* two signing calls, in either order
SignNext == \E c \in Calls : createSignatureFromParts(c)

SignSpec == SignInit /\ [][SignNext]_vars

----------------------------------------------------------------------------
(* The body a handler signs and the body axios transmits.  A JavaScript    *)
(* object is the sequence of its <<key, value>> members in insertion       *)
(* order; a serialized body is a sequence of tokens.                       *)

Str(s) == [t |-> "string", v |-> s]

Num(n) == [t |-> "number", v |-> n]

Bool(b) == [t |-> "boolean", v |-> b]

Undefined == [t |-> "undefined"]

\* JSON.stringify of a member value
JsonValue(x) ==
    CASE x.t = "string" -> <<"\"", x.v, "\"">>
      [] x.t = "number" -> <<ToString(x.v)>>
      [] x.t = "boolean" -> <<IF x.v THEN "true" ELSE "false">>

RECURSIVE JsonMembers(_, _)
\* the members of an object, comma separated; a member whose value is
\* undefined is left out
JsonMembers(obj, first) ==
    IF obj = <<>> THEN <<>>
    ELSE IF Head(obj)[2] = Undefined THEN JsonMembers(Tail(obj), first)
    ELSE (IF first THEN <<>> ELSE <<",">>)
            \o <<"\"", Head(obj)[1], "\"", ":">> \o JsonValue(Head(obj)[2])
            \o JsonMembers(Tail(obj), FALSE)

\* JSON.stringify(obj)
JSONstringify(obj) == <<"{">> \o JsonMembers(obj, TRUE) \o <<"}">>

\* an object given as data, and the absence of a data argument
Obj(members) == [kind |-> "object", members |-> members]

NoData == [kind |-> "none", members |-> <<>>]

\* axios defaults.transformRequest: an object given as data is sent as its
\* JSON text, a call without data has no body
transformRequest(data) ==
    IF data.kind = "none" THEN <<>> ELSE JSONstringify(data.members)

JsonOps == {"createBot", "updateBot", "duplicateBot"}

EmptyPostOps == {"pauseBot", "startBot", "emergencyStopBot"}

NoDataOps == {"deleteBot", "getBotDetails"}

\* botPayload of createBot: the members that depend on the request, one
\* fixed member, and pairs, which is undefined for a single-pair bot
createBotPayload(botName, botType, maxSafetyOrders) ==
    << <<"name", Str(botName)>>,
       <<"bot_type", Str(IF botType = "single" THEN "simple" ELSE "composite")>>,
       <<"max_safety_orders",
         Num(IF maxSafetyOrders = Null THEN 5 ELSE maxSafetyOrders)>>,
       <<"active", Bool(TRUE)>>,
       <<"pairs", IF botType = "multi" THEN Str("USDT_BTC") ELSE Undefined>> >>

\* botPayload of duplicateBot
duplicateBotPayload(newName, maxSafetyOrders) ==
    << <<"name", Str(newName)>>,
       <<"max_safety_orders", Num(maxSafetyOrders)>>,
       <<"active", Bool(FALSE)>> >>

\* updateData of updateBot: the request body without userId
UpdateDatas ==
    { <<>>,
      << <<"maxSafetyOrders", Num(7)>> >>,
      << <<"status", Str("error")>> >>,
      << <<"name", Str("B")>> >>,
      << <<"name", Str("B")>>, <<"maxSafetyOrders", Num(7)>> >>,
      << <<"maxSafetyOrders", Num(7)>>, <<"name", Str("B")>> >> }

\* the signed calls: the handler, the remote bot id in the path (Null for
\* /ver1/bots) and the payload object the handler built
WireCalls ==
    {[op |-> "createBot", id |-> Null, payload |-> Obj(createBotPayload(n, bt, m))] :
        n \in Names, bt \in {"single", "multi"}, m \in {Null, 1, 3}}
    \cup {[op |-> "duplicateBot", id |-> Null,
           payload |-> Obj(duplicateBotPayload(n, m))] : n \in Names, m \in {1, 3, 5}}
    \cup {[op |-> "updateBot", id |-> t, payload |-> Obj(u)] :
           t \in RemoteIds, u \in UpdateDatas}
    \cup {[op |-> o, id |-> t, payload |-> NoData] :
           o \in EmptyPostOps \cup NoDataOps, t \in RemoteIds}

\* the path of the call
WirePath(c) ==
    <<"/ver1/bots">>
        \o (IF c.id = Null THEN <<>> ELSE <<"/", ToString(c.id)>>)
        \o (CASE c.op = "pauseBot" -> <<"/pause">>
              [] c.op = "startBot" -> <<"/start_new_deal">>
              [] c.op = "emergencyStopBot" -> <<"/panic_sell">>
              [] OTHER -> <<>>)

\* the body string the handler hands to createSignatureFromParts
SignedBody(c) ==
    IF c.op \in JsonOps THEN JSONstringify(c.payload.members) ELSE <<>>

\* the data argument of the axios call
AxiosData(c) ==
    CASE c.op \in JsonOps -> c.payload
      [] c.op \in EmptyPostOps -> Obj(<<>>)
      [] OTHER -> NoData

WireInit ==
    /\ ServerStarted
    /\ sign = NoSign
    /\ wire \in {[pc |-> "built", call |-> c, signedBody |-> <<>>,
                   signature |-> Hmac(<<>>, <<>>), sentBody |-> <<>>] :
                      c \in WireCalls}
    /\ validation = NoValidation
    /\ perf = NoPerformance

\* const signature = createSignatureFromParts(path, "", payload or "")
SignCall ==
    /\ wire.pc = "built"
    /\ wire' = [wire EXCEPT
                  !.pc = "signed",
                  !.signedBody = SignedBody(wire.call),
                  !.signature =
                      Hmac(THREE_COMMAS_API_SECRET,
                           buildStringToSign(WirePath(wire.call), <<>>,
                                             SignedBody(wire.call)))]
    /\ UNCHANGED <<perf, botVars, sign, validation>>

\* axios.post / patch / delete / get with the Signature header
AxiosCall ==
    /\ wire.pc = "signed"
    /\ wire' = [wire EXCEPT !.pc = "sent",
                            !.sentBody = transformRequest(AxiosData(wire.call))]
    /\ UNCHANGED <<perf, botVars, sign, validation>>

WireNext == SignCall \/ AxiosCall

WireSpec == WireInit /\ [][WireNext]_vars

----------------------------------------------------------------------------
(* validateBinanceAPI (binanceController.js).  A key or secret is its      *)
(* length; the exchange is the answer each of the three endpoints gives.   *)

\* apiKey.length < 20, apiSecret.length < 20
MinKeyLength == 20

KeyLengths == {0, MinKeyLength - 1, MinKeyLength}

\* /api/v3/account: a 2xx answer with makerCommission, a 2xx answer
\* without it, or a rejected promise (4xx, 5xx, timeout, network)
AccountAnswers == {"commission", "other", "rejected"}

\* /api/v3/ping and /api/v3/time: status 200, another 2xx status, or a
\* rejected promise
StatusAnswers == {"200", "204", "rejected"}

Tiers == {"account", "ping", "time"}

validationResults ==
    [passed |-> FALSE, error |-> "null", permissionLevel |-> "unknown",
     canTrade |-> FALSE, canRead |-> FALSE]

ValidationInit ==
    /\ ServerStarted
    /\ sign = NoSign
    /\ wire = NoWire
    /\ perf = NoPerformance
    /\ validation \in
          {[pc |-> "called", apiKey |-> k, apiSecret |-> s,
            account |-> a, ping |-> pg, time |-> t,
            calls |-> {}, resolved |-> {}, results |-> validationResults] :
               k \in KeyLengths, s \in KeyLengths, a \in AccountAnswers,
               pg \in StatusAnswers, t \in StatusAnswers}

\* the format checks, then the request to /api/v3/account goes out
validateBinanceAPIBegin ==
    /\ validation.pc = "called"
    /\ validation' =
          IF validation.apiKey = 0 \/ validation.apiKey < MinKeyLength
          THEN [validation EXCEPT
                  !.pc = "returned",
                  !.results.error = "Invalid API key format - too short"]
          ELSE IF validation.apiSecret = 0
                  \/ validation.apiSecret < MinKeyLength
          THEN [validation EXCEPT
                  !.pc = "returned",
                  !.results.error = "Invalid API secret format - too short"]
          ELSE [validation EXCEPT !.pc = "account",
                                  !.calls = @ \cup {"account"}]
    /\ UNCHANGED <<perf, botVars, sign, wire>>

\* validateBinanceAPIAccount that falls back to ping whenever the account
\* answer does not pass, resolved or not
validateBinanceAPIAccountFallsThrough ==
    /\ validation.pc = "account"
    /\ validation' =
          IF validation.account = "commission"
          THEN [validation EXCEPT !.pc = "returned",
                                  !.resolved = @ \cup {"account"},
                                  !.results.passed = TRUE,
                                  !.results.canRead = TRUE,
                                  !.results.permissionLevel = "full"]
          ELSE [validation EXCEPT !.pc = "ping",
                                  !.calls = @ \cup {"ping"}]
    /\ UNCHANGED <<perf, botVars, sign, wire>>

\* the account answer arrives; only a rejection reaches the fallback
validateBinanceAPIAccount ==
    /\ validation.pc = "account"
    /\ validation' =
          CASE validation.account = "commission" ->
                 [validation EXCEPT !.pc = "returned",
                                    !.resolved = @ \cup {"account"},
                                    !.results.passed = TRUE,
                                    !.results.canRead = TRUE,
                                    !.results.permissionLevel = "full"]
            [] validation.account = "other" ->
                 [validation EXCEPT !.pc = "returned",
                                    !.resolved = @ \cup {"account"}]
            [] OTHER ->
                 [validation EXCEPT !.pc = "ping",
                                    !.calls = @ \cup {"ping"}]
    /\ UNCHANGED <<perf, botVars, sign, wire>>

validateBinanceAPIPing ==
    /\ validation.pc = "ping"
    /\ validation' =
          CASE validation.ping = "200" ->
                 [validation EXCEPT !.pc = "returned",
                                    !.resolved = @ \cup {"ping"},
                                    !.results.passed = TRUE,
                                    !.results.canRead = TRUE,
                                    !.results.permissionLevel = "basic"]
            [] validation.ping = "204" ->
                 [validation EXCEPT !.pc = "returned",
                                    !.resolved = @ \cup {"ping"}]
            [] OTHER ->
                 [validation EXCEPT !.pc = "time",
                                    !.calls = @ \cup {"time"}]
    /\ UNCHANGED <<perf, botVars, sign, wire>>

validateBinanceAPITime ==
    /\ validation.pc = "time"
    /\ validation' =
          CASE validation.time = "200" ->
                 [validation EXCEPT !.pc = "returned",
                                    !.resolved = @ \cup {"time"},
                                    !.results.passed = TRUE,
                                    !.results.permissionLevel = "minimal"]
            [] validation.time = "204" ->
                 [validation EXCEPT !.pc = "returned",
                                    !.resolved = @ \cup {"time"}]
            [] OTHER ->
                 [validation EXCEPT !.pc = "returned",
                                    !.results.error = "accountErr"]
    /\ UNCHANGED <<perf, botVars, sign, wire>>

ValidationNext ==
    \/ validateBinanceAPIBegin
    \/ validateBinanceAPIAccount
    \/ validateBinanceAPIPing
    \/ validateBinanceAPITime

ValidationSpec == ValidationInit /\ [][ValidationNext]_vars

----------------------------------------------------------------------------
(* The performance metrics of getBotPerformance (botController.js).  A     *)
(* deal is the record the platform returned; a quotient is kept exact as   *)
(* numerator and denominator.                                              *)

\* longest deal list
MaxDeals == 3

\* the deals of response.data: won, lost, even, and one without the field
Deals ==
    {[final_profit |-> 5], [final_profit |-> -2], [final_profit |-> 0],
     [status |-> "active"]}

DealLists == UNION {[1..n -> Deals] : n \in 0..MaxDeals}

\* deal.final_profit || 0
FinalProfit(deal) ==
    IF "final_profit" \in DOMAIN deal THEN deal.final_profit ELSE 0

\* deals.filter(deal => (deal.final_profit || 0) > 0).length
RECURSIVE Wins(_)
Wins(deals) ==
    IF deals = <<>> THEN 0
    ELSE (IF FinalProfit(Head(deals)) > 0 THEN 1 ELSE 0) + Wins(Tail(deals))

\* filter that also counts the deals that broke even
RECURSIVE WinsOrEven(_)
WinsOrEven(deals) ==
    IF deals = <<>> THEN 0
    ELSE (IF FinalProfit(Head(deals)) >= 0 THEN 1 ELSE 0)
            + WinsOrEven(Tail(deals))

\* Math.max(...deals.map(deal => deal.final_profit || 0)), deals not empty
RECURSIVE MathMax(_)
MathMax(deals) ==
    IF Len(deals) = 1 THEN FinalProfit(deals[1])
    ELSE LET m == MathMax(Tail(deals))
         IN  IF FinalProfit(Head(deals)) > m THEN FinalProfit(Head(deals))
             ELSE m

\* Math.min(...deals.map(deal => deal.final_profit || 0)), deals not empty
RECURSIVE MathMin(_)
MathMin(deals) ==
    IF Len(deals) = 1 THEN FinalProfit(deals[1])
    ELSE LET m == MathMin(Tail(deals))
         IN  IF FinalProfit(Head(deals)) < m THEN FinalProfit(Head(deals))
             ELSE m

\* winRate that counts every deal that did not lose
winRateCountsEven(deals) ==
    IF Len(deals) > 0
    THEN [num |-> WinsOrEven(deals) * 100, den |-> Len(deals)]
    ELSE [num |-> 0, den |-> 1]

\* deals.length > 0 ? (wins / deals.length) * 100 : 0
winRate(deals) ==
    IF Len(deals) > 0
    THEN [num |-> Wins(deals) * 100, den |-> Len(deals)]
    ELSE [num |-> 0, den |-> 1]

\* the fields of `performance` computed from final_profit
performance(deals) ==
    [totalDeals |-> Len(deals),
     winRate |-> winRate(deals),
     bestDeal |-> IF Len(deals) > 0 THEN MathMax(deals) ELSE 0,
     worstDeal |-> IF Len(deals) > 0 THEN MathMin(deals) ELSE 0]

PerformanceInit ==
    /\ ServerStarted
    /\ sign = NoSign
    /\ wire = NoWire
    /\ validation = NoValidation
    /\ perf \in {[pc |-> "deals", deals |-> d,
                   performance |-> performance(<<>>)] : d \in DealLists}

\* const deals = response.data || []; const performance = { ... }
getBotPerformanceMetrics ==
    /\ perf.pc = "deals"
    /\ perf' = [perf EXCEPT !.pc = "computed",
                            !.performance = performance(perf.deals)]
    /\ UNCHANGED <<botVars, sign, wire, validation>>

PerformanceNext == getBotPerformanceMetrics

PerformanceSpec == PerformanceInit /\ [][PerformanceNext]_vars

----------------------------------------------------------------------------
(* Specifications *)

Begin(p, in) ==
    \/ createBotBegin(p, in)
    \/ pauseBotBegin(p, in)
    \/ startBotBegin(p, in)
    \/ emergencyStopBotBegin(p, in)
    \/ deleteBotBegin(p, in)
    \/ updateBotBegin(p, in)
    \/ duplicateBotBegin(p, in)

Continue(p) ==
    \/ createBotRemote(p)
    \/ createBotSave(p)
    \/ pauseBotRemote(p)
    \/ pauseBotSave(p)
    \/ startBotRemote(p)
    \/ startBotSave(p)
    \/ emergencyStopBotRemote(p)
    \/ emergencyStopBotSave(p)
    \/ deleteBotRemote(p)
    \/ deleteBotSave(p)
    \/ updateBotRemote(p)
    \/ updateBotSave(p)
    \/ duplicateBotRemote(p)
    \/ duplicateBotSave(p)

\* requests are served one after another by one process
Serial == {"p1"}

\* every handler, with the repository free to reject a write
Next ==
    \E p \in Serial :
        \/ Begin(p, SeqInputs)
        \/ Continue(p)
        \/ RepositoryWriteThrows(p)
        \/ Finish(p)

Spec == Init /\ [][Next]_vars

\* every handler, with the repository available: a write is refused only
\* by a schema validator or the unique index
ReliableNext ==
    \E p \in Serial :
        \/ Begin(p, SeqInputs)
        \/ Continue(p)
        \/ Finish(p)

ReliableSpec == Init /\ [][ReliableNext]_vars

\* createBot, duplicateBot, updateBot and deleteBot requests served by two
\* processes whose awaits interleave, with the repository available
RaceNext ==
    \E p \in Procs :
        \/ createBotBegin(p, RaceInputs)
        \/ createBotRemote(p)
        \/ createBotSave(p)
        \/ duplicateBotBegin(p, RaceInputs)
        \/ duplicateBotRemote(p)
        \/ duplicateBotSave(p)
        \/ updateBotBegin(p, RaceInputs)
        \/ updateBotRemote(p)
        \/ updateBotSave(p)
        \/ deleteBotBegin(p, RaceInputs)
        \/ deleteBotRemote(p)
        \/ deleteBotSave(p)
        \/ Finish(p)

RaceSpec == Init /\ [][RaceNext]_vars

\* createBot, pauseBot, startBot and emergencyStopBot requests served by
\* two processes whose awaits interleave, with the repository available
LifecycleRaceNext ==
    \E p \in Procs :
        \/ createBotBegin(p, LifecycleRaceInputs)
        \/ createBotRemote(p)
        \/ createBotSave(p)
        \/ pauseBotBegin(p, LifecycleRaceInputs)
        \/ pauseBotRemote(p)
        \/ pauseBotSave(p)
        \/ startBotBegin(p, LifecycleRaceInputs)
        \/ startBotRemote(p)
        \/ startBotSave(p)
        \/ emergencyStopBotBegin(p, LifecycleRaceInputs)
        \/ emergencyStopBotRemote(p)
        \/ emergencyStopBotSave(p)
        \/ Finish(p)

LifecycleRaceSpec == Init /\ [][LifecycleRaceNext]_vars

\* createBot, the lifecycle handlers and updateBot served by one process
\* and deleteBot by the other, their awaits interleaving, with the
\* repository available
DeleteRaceNext ==
    \/ createBotBegin("p1", DeleteRaceInputs)
    \/ createBotRemote("p1")
    \/ createBotSave("p1")
    \/ pauseBotBegin("p1", DeleteRaceInputs)
    \/ pauseBotRemote("p1")
    \/ pauseBotSave("p1")
    \/ startBotBegin("p1", DeleteRaceInputs)
    \/ startBotRemote("p1")
    \/ startBotSave("p1")
    \/ emergencyStopBotBegin("p1", DeleteRaceInputs)
    \/ emergencyStopBotRemote("p1")
    \/ emergencyStopBotSave("p1")
    \/ updateBotBegin("p1", DeleteRaceInputs)
    \/ updateBotRemote("p1")
    \/ updateBotSave("p1")
    \/ deleteBotBegin("p2", DeleteRaceInputs)
    \/ deleteBotRemote("p2")
    \/ deleteBotSave("p2")
    \/ \E p \in Procs : Finish(p)

DeleteRaceSpec == Init /\ [][DeleteRaceNext]_vars

\* the connection endpoints and createBot, served one after another
ConnectNext ==
    \E p \in Serial :
        \/ connectBinanceBegin(p, ConnectInputs)
        \/ connectBinanceValidate(p)
        \/ connectBinanceRemote(p)
        \/ connectBinanceSave(p)
        \/ disconnectBinanceBegin(p, ConnectInputs)
        \/ disconnectBinanceSave(p)
        \/ createBotBegin(p, ConnectInputs)
        \/ createBotRemote(p)
        \/ createBotSave(p)
        \/ Finish(p)

ConnectSpec == Init /\ [][ConnectNext]_vars

\* the owner's creations and the read endpoints that take a bot id, served
\* one after another
ReadNext ==
    \E p \in Serial :
        \/ createBotBegin(p, ReadInputs)
        \/ createBotRemote(p)
        \/ createBotSave(p)
        \/ getBotStatsBegin(p, ReadInputs)
        \/ getBotStatsRemote(p)
        \/ getBotPerformanceBegin(p, ReadInputs)
        \/ getBotPerformanceRemote(p)
        \/ getBotDealsBegin(p, ReadInputs)
        \/ getBotDealsRemote(p)
        \/ getBotDetailsBegin(p, ReadInputs)
        \/ getBotDetailsRemote(p)
        \/ verifyBotCreationBegin(p, ReadInputs)
        \/ verifyBotCreationRemote(p)
        \/ Finish(p)

ReadSpec == Init /\ [][ReadNext]_vars

\* the owner's creations and updates, served one after another
AssignNext ==
    \E p \in Serial :
        \/ createBotBegin(p, AssignInputs)
        \/ createBotRemote(p)
        \/ createBotSave(p)
        \/ updateBotBegin(p, AssignInputs)
        \/ updateBotRemote(p)
        \/ updateBotSave(p)
        \/ Finish(p)

AssignSpec == Init /\ [][AssignNext]_vars

\* the request was answered 200/201 after its remote call succeeded
Answered(p, op) ==
    /\ req[p].pc = "done"
    /\ req[p].op = op
    /\ req[p].status \in {200, 201}
    /\ req[p].outcome = "success"

\* one client sends create, pause, start, emergency-stop and delete, each
\* after the answer to the one before; the requests are served in turn by
\* p1 and p2, and the answer to a request is kept until the next one is
\* answered.  After the delete the client starts over.
ScenarioNext ==
    \/ req["p2"].pc = "idle" /\ createBotBegin("p1", ScenarioInputs)
    \/ createBotRemote("p1")
    \/ createBotSave("p1")
    \/ Answered("p1", "createBot") /\ pauseBotBegin("p2", ScenarioInputs)
    \/ pauseBotRemote("p2")
    \/ pauseBotSave("p2")
    \/ Answered("p2", "pauseBot") /\ req["p1"].op = "createBot" /\ Finish("p1")
    \/ Answered("p2", "pauseBot") /\ startBotBegin("p1", ScenarioInputs)
    \/ startBotRemote("p1")
    \/ startBotSave("p1")
    \/ Answered("p1", "startBot") /\ Finish("p2")
    \/ Answered("p1", "startBot") /\ emergencyStopBotBegin("p2", ScenarioInputs)
    \/ emergencyStopBotRemote("p2")
    \/ emergencyStopBotSave("p2")
    \/ Answered("p2", "emergencyStopBot") /\ req["p1"].op = "startBot" /\ Finish("p1")
    \/ Answered("p2", "emergencyStopBot") /\ deleteBotBegin("p1", ScenarioInputs)
    \/ deleteBotRemote("p1")
    \/ deleteBotSave("p1")
    \/ Answered("p1", "deleteBot") /\ Finish("p2")
    \/ req["p2"].pc = "idle" /\ Answered("p1", "deleteBot") /\ Finish("p1")

ScenarioSpec == Init /\ [][ScenarioNext]_vars

\* the awaited call of a request in flight settles: the remote call returns
\* or times out, the repository call returns or throws
Settle(p) == Continue(p) \/ RepositoryWriteThrows(p)

\* every lifecycle handler served by one process, the repository free to
\* reject a write; the event loop resumes a handler whose awaited call has
\* settled
ResponseNext ==
    \E p \in Serial :
        \/ Begin(p, ResponseInputs)
        \/ Continue(p)
        \/ RepositoryWriteThrows(p)
        \/ Finish(p)

ResponseSpec ==
    Init /\ [][ResponseNext]_vars /\ \A p \in Serial : WF_vars(Settle(p))

TypeOK ==
    /\ DOMAIN bots \subseteq BotIds
    /\ \A b \in DOMAIN bots : DOMAIN bots[b] = BotPaths
    /\ nextId \in 1..(MaxBots + 1)
    /\ \A t \in RemoteIds : remote[t] \in RemoteStates
    /\ \A p \in Procs : req[p].pc \in {"idle", "remote", "save", "done"}

----------------------------------------------------------------------------
(* Properties *)

Done(p, op) == req[p].pc = "done" /\ req[p].op = op

\* the handler read the record and its ownership check passed
Owned(p) == req[p].doc # NoDoc

RemoteFailed(p) == req[p].outcome \in {"rejected", "unreachable"}

Quiescent == \A p \in Procs : req[p].pc \in {"idle", "done"}

\* C1: whenever no request is in flight, the status of every local record
\* equals the state its remote bot was last successfully commanded into
\* (running, paused or stopped)
C1_LocalStatusMatchesRemote ==
    Quiescent =>
        \A b \in DOMAIN bots :
            LET t == bots[b].threeCommasBotId IN
            (t \in RemoteIds /\ remote[t] \in {"running", "paused", "stopped"})
                => bots[b].status = remote[t]

\* C2: the status of an existing record changes only in the repository
\* write of a pauseBot, startBot or emergencyStopBot request on that record
\* whose own remote call returned success
C2_StatusChangesOnlyInLifecycleHandlers ==
    [][\A b \in (DOMAIN bots) \cap (DOMAIN bots') :
          bots'[b].status # bots[b].status =>
              \E p \in Procs :
                  /\ req[p].pc = "save"
                  /\ req'[p].pc = "done"
                  /\ req[p].op \in {"pauseBot", "startBot", "emergencyStopBot"}
                  /\ req[p].botId = b
                  /\ req[p].outcome = "success"]_vars

\* C3: when a createBot handler whose remote create returned success with
\* id X has finished, exactly one record exists for its (owner, botName),
\* with threeCommasBotId X and status running
C3_CreateSuccessLeavesOneRecord ==
    \A p \in Procs :
        (Done(p, "createBot") /\ req[p].outcome = "success") =>
            LET found == findOne(req[p].userId, req[p].body.botName) IN
            /\ Cardinality(found) = 1
            /\ \A b \in found :
                /\ bots[b].threeCommasBotId = req[p].tcId
                /\ bots[b].status = "running"

\* C4: when a createBot handler whose remote create was rejected or timed
\* out has finished, no record exists for its (owner, botName), however
\* many such attempts came before; the name check of the next createBot
\* (findOne non-empty) therefore does not refuse that name
C4_CreateFailureLeavesNoRecord ==
    \A p \in Procs :
        (Done(p, "createBot") /\ RemoteFailed(p)) =>
            /\ findOne(req[p].userId, req[p].body.botName) = {}
            /\ req[p].status = 400
            /\ req[p].message = "Failed to create bot in 3Commas"

C4_Witness ==
    \E p \in Procs :
        /\ Done(p, "createBot")
        /\ req[p].outcome = "unreachable"
        /\ \E t \in RemoteIds : remote[t] # "none"

\* C5: when a deleteBot handler that passed the ownership check has
\* finished, the record is gone, whether the remote delete succeeded, was
\* rejected or timed out
C5_DeleteRemovesRecord ==
    \A p \in Procs :
        (Done(p, "deleteBot") /\ Owned(p)) =>
            /\ req[p].botId \notin DOMAIN bots
            /\ req[p].status = 200

C5_Witness ==
    \E p \in Procs :
        /\ Done(p, "deleteBot")
        /\ Owned(p)
        /\ req[p].outcome = "rejected"
        /\ req[p].botId \notin DOMAIN bots

\* C6: pauseBot by the owner on a record that is paused, stopped or in
\* error answers 400 "Bot is not currently running", makes no remote call
\* and leaves the record as it was
C6_PauseRefusedUnlessRunning ==
    \A p \in Procs :
        (Done(p, "pauseBot") /\ Owned(p) /\ req[p].doc.status # "running") =>
            /\ req[p].status = 400
            /\ req[p].message = "Bot is not currently running"
            /\ req[p].calls = 0
            /\ req[p].botId \in DOMAIN bots
            /\ bots[req[p].botId] = req[p].doc

C6_Witness ==
    \E p \in Procs :
        /\ Done(p, "pauseBot")
        /\ Owned(p)
        /\ req[p].doc.status = "error"
        /\ req[p].status = 400

\* C7: pauseBot on a running record with a remote id: after a successful
\* remote pause the status is paused; after a failed one the status is
\* still running and the response carries the remote error
C7_PauseFollowsRemote ==
    \A p \in Procs :
        (/\ Done(p, "pauseBot")
         /\ Owned(p)
         /\ req[p].doc.status = "running"
         /\ req[p].doc.threeCommasBotId # Null) =>
            /\ req[p].calls = 1
            /\ req[p].outcome = "success" =>
                  /\ bots[req[p].botId].status = "paused"
                  /\ req[p].status = 200
            /\ req[p].outcome # "success" =>
                  /\ bots[req[p].botId].status = "running"
                  /\ req[p].status = 400
                  /\ req[p].error = req[p].outcome
                  /\ RemoteFailed(p)

C7_Witness ==
    \E p \in Procs :
        /\ Done(p, "pauseBot")
        /\ req[p].outcome = "success"
        /\ bots[req[p].botId].status = "paused"
        /\ remote[req[p].doc.threeCommasBotId] = "paused"

\* C8: startBot by the owner: on a paused or stopped record with a remote
\* id, a successful start_new_deal makes the status running and a failed
\* one leaves it and returns the error; on a running or error record the
\* request is refused with no remote call and no change
C8_StartFollowsGuardAndRemote ==
    \A p \in Procs :
        (Done(p, "startBot") /\ Owned(p)) =>
            IF req[p].doc.status \in {"paused", "stopped"}
            THEN req[p].doc.threeCommasBotId # Null =>
                    /\ req[p].calls = 1
                    /\ req[p].outcome = "success" =>
                          /\ bots[req[p].botId].status = "running"
                          /\ req[p].status = 200
                    /\ req[p].outcome # "success" =>
                          /\ bots[req[p].botId] = req[p].doc
                          /\ req[p].status = 400
                          /\ req[p].error = req[p].outcome
                          /\ RemoteFailed(p)
            ELSE /\ req[p].status = 400
                 /\ req[p].calls = 0
                 /\ bots[req[p].botId] = req[p].doc

C8_Witness ==
    \E p \in Procs :
        /\ Done(p, "startBot")
        /\ req[p].doc # NoDoc
        /\ req[p].doc.status = "stopped"
        /\ req[p].outcome = "success"
        /\ bots[req[p].botId].status = "running"

\* C9: emergencyStopBot by the owner on a record with a remote id issues
\* panic_sell whatever the status; on success the status is stopped, on
\* failure the record is unchanged and the error is returned
C9_EmergencyStopFromAnyStatus ==
    \A p \in Procs :
        (/\ Done(p, "emergencyStopBot")
         /\ Owned(p)
         /\ req[p].doc.threeCommasBotId # Null) =>
            /\ req[p].calls = 1
            /\ req[p].outcome = "success" =>
                  /\ bots[req[p].botId].status = "stopped"
                  /\ req[p].status = 200
            /\ req[p].outcome # "success" =>
                  /\ bots[req[p].botId] = req[p].doc
                  /\ req[p].status = 400
                  /\ req[p].error = req[p].outcome
                  /\ RemoteFailed(p)

C9_Witness ==
    \E p \in Procs :
        /\ Done(p, "emergencyStopBot")
        /\ req[p].doc # NoDoc
        /\ req[p].doc.status = "error"
        /\ req[p].outcome = "success"
        /\ bots[req[p].botId].status = "stopped"

\* C10: when an updateBot handler that reached its remote call has
\* finished, either the platform accepted the update and the local record
\* carries every submitted field, or the platform refused it and the local
\* record is as it was read
C10_UpdateAllOrNothing ==
    \A p \in Procs :
        (Done(p, "updateBot") /\ req[p].calls = 1) =>
            \/ /\ req[p].outcome = "success"
               /\ req[p].botId \in DOMAIN bots
               /\ \A path \in DOMAIN req[p].body :
                     bots[req[p].botId][path] = req[p].body[path]
            \/ /\ req[p].outcome # "success"
               /\ req[p].botId \in DOMAIN bots
               /\ bots[req[p].botId] = req[p].doc

C12_DuplicateFailureLeavesNoRecord ==
    \A p \in Procs :
        (Done(p, "duplicateBot") /\ Owned(p)) =>
            /\ \E s \in DOMAIN bots : bots[s] = req[p].doc
            /\ RemoteFailed(p) =>
                  /\ findOne(req[p].userId, req[p].body.newName) = {}
                  /\ req[p].status = 400
                  /\ req[p].message = "Failed to duplicate bot in 3Commas"

C12_Witness ==
    \E p \in Procs :
        /\ Done(p, "duplicateBot")
        /\ Owned(p)
        /\ req[p].outcome = "rejected"
        /\ \E s \in DOMAIN bots : bots[s] = req[p].doc
        /\ Cardinality(DOMAIN bots) = 1

\* C13: no two stored records have the same owner and the same name
C13_OwnerNameUnique ==
    \A a \in DOMAIN bots : \A b \in DOMAIN bots :
        (bots[a].user = bots[b].user /\ bots[a].name = bots[b].name) => a = b

\* two overlapping creations of one name both passed the name check and
\* both created a remote bot; the index refused the second insert
C13_Witness ==
    \E p \in Procs : \E q \in Procs \ {p} :
        /\ Done(p, "createBot")
        /\ req[p].error = "E11000 duplicate key"
        /\ req[q].op = "createBot"
        /\ req[q].status = 201
        /\ req[q].body.botName = req[p].body.botName

NameExistsMessage ==
    "A bot with this name already exists. Please choose a different name."

\* C14: a createBot request for an (owner, name) that is stored, and a
\* duplicateBot request of an own record whose newName is stored for the
\* owner, is answered 400 in the step that receives it: no remote call is
\* made, and neither the repository nor the platform changes
C14_ExistingNameRejectedBeforeRemote ==
    [][\A p \in Procs :
          (/\ req[p].pc = "idle"
           /\ req'[p].pc # "idle"
           /\ \/ /\ req'[p].op = "createBot"
                 /\ findOne(req'[p].userId, req'[p].body.botName) # {}
              \/ /\ req'[p].op = "duplicateBot"
                 /\ req'[p].botId \in DOMAIN bots
                 /\ bots[req'[p].botId].user = req'[p].userId
                 /\ findOne(req'[p].userId, req'[p].body.newName) # {})
          => /\ req'[p].pc = "done"
             /\ req'[p].status = 400
             /\ req'[p].calls = 0
             /\ bots' = bots
             /\ remote' = remote]_vars

C14_Witness ==
    \E p \in Procs :
        /\ Done(p, "createBot")
        /\ req[p].message = NameExistsMessage
        /\ req[p].status = 400
        /\ req[p].calls = 0
        /\ findOne(req[p].userId, req[p].body.botName) # {}

\* the cases in which a handler must refuse request r, read off the request
\* and the repository as the request arrives
Refused(r) ==
    LET own == r.botId \in DOMAIN bots /\ bots[r.botId].user = r.userId IN
    CASE r.op = "createBot" ->
            \/ createBotValidation(r.userId, r.body) # "ok"
            \/ r.userId \notin DOMAIN users
            \/ users[r.userId] = Null
            \/ findOne(r.userId, r.body.botName) # {}
      [] r.op = "pauseBot" ->
            \/ ~own
            \/ bots[r.botId].status # "running"
            \/ bots[r.botId].threeCommasBotId = Null
      [] r.op = "startBot" ->
            \/ ~own
            \/ bots[r.botId].status \notin {"paused", "stopped"}
            \/ bots[r.botId].threeCommasBotId = Null
      [] r.op \in {"emergencyStopBot", "updateBot"} ->
            \/ ~own
            \/ bots[r.botId].threeCommasBotId = Null
      [] r.op = "deleteBot" -> ~own
      [] r.op = "duplicateBot" ->
            \/ ~own
            \/ r.body.newName = ""
            \/ findOne(r.userId, r.body.newName) # {}
      [] OTHER -> FALSE

\* C15: a request that must be refused (invalid or missing field, unknown
\* user, no linked account, record missing or not the requester's, status
\* guard, no remote id) is answered 400, 403 or 404 in the step that
\* receives it, with no remote call and the platform untouched; and every
\* 400, 403 or 404 answer that does not report a remote or storage failure
\* comes with zero remote calls
C15_RefusalsMakeNoRemoteCall ==
    [][\A p \in Procs :
          /\ (req[p].pc = "idle" /\ req'[p].pc # "idle" /\ Refused(req'[p]))
                => /\ req'[p].pc = "done"
                   /\ req'[p].status \in {400, 403, 404}
                   /\ req'[p].calls = 0
                   /\ remote' = remote
          /\ (/\ req'[p].pc = "done"
              /\ req'[p].status \in {400, 403, 404}
              /\ req'[p].error = "none")
                => req'[p].calls = 0]_vars

C15_Witness ==
    \E p \in Procs :
        /\ Done(p, "createBot")
        /\ req[p].userId = "u3"
        /\ req[p].status = 400
        /\ req[p].calls = 0
        /\ DOMAIN bots # {}

\* C16: a createBot request whose maxSafetyOrders, as the handler stores it,
\* fails the schema validator (outside 1..25) makes no remote call and
\* creates no remote bot
C16_CreateValidatesSchemaBeforeRemote ==
    \A p \in Procs :
        (/\ req[p].op = "createBot"
         /\ ~PathValid("maxSafetyOrders",
                       OrDefault(req[p].body.maxSafetyOrders, 5))) =>
            /\ req[p].calls = 0
            /\ req[p].tcId = Null

MutatingOps ==
    {"pauseBot", "startBot", "emergencyStopBot", "deleteBot", "updateBot",
     "duplicateBot"}

\* C17: a mutating request of a known user on a record that is missing or
\* is another user's is answered 403
C17_OwnershipFailureIs403 ==
    [][\A p \in Procs :
          (/\ req[p].pc = "idle"
           /\ req'[p].op \in MutatingOps
           /\ req'[p].userId \in DOMAIN users
           /\ \/ req'[p].botId \notin DOMAIN bots
              \/ bots[req'[p].botId].user # req'[p].userId)
          => /\ req'[p].pc = "done"
             /\ req'[p].status = 403]_vars

\* C18: a mutating request on a stored record whose owner is not the
\* requester is answered in the step that receives it, without a remote
\* call, and no record is modified, removed or created
C18_NonOwnerChangesNothing ==
    [][\A p \in Procs :
          (/\ req[p].pc = "idle"
           /\ req'[p].op \in MutatingOps
           /\ req'[p].botId \in DOMAIN bots
           /\ bots[req'[p].botId].user # req'[p].userId)
          => /\ req'[p].pc = "done"
             /\ req'[p].status \in {400, 403, 404}
             /\ req'[p].calls = 0
             /\ bots' = bots
             /\ nextId' = nextId
             /\ remote' = remote]_vars

C18_Witness ==
    \E p \in Procs :
        /\ Done(p, "deleteBot")
        /\ req[p].userId = "u2"
        /\ req[p].botId \in DOMAIN bots
        /\ bots[req[p].botId].user = "u1"
        /\ req[p].status = 403
        /\ req[p].calls = 0

ReadOps ==
    {"verifyBotCreation", "getBotStats", "getBotPerformance", "getBotDeals",
     "getBotDetails"}

\* C19: a read request on a stored record whose owner is not the client
\* that sent it is not handed the record, makes no remote call for it and
\* is not answered 200
C19_ReadsValidateOwnership ==
    \A p \in Procs :
        (/\ req[p].op \in ReadOps
         /\ req[p].botId \in DOMAIN bots
         /\ bots[req[p].botId].user # req[p].userId) =>
            /\ req[p].pc = "done"
            /\ req[p].doc = NoDoc
            /\ req[p].calls = 0
            /\ req[p].status # 200

\* C20: no step changes the owner of a stored record, and no step changes
\* the remote bot id of a stored record once it is not null
C20_OwnerAndRemoteIdImmutable ==
    [][\A b \in (DOMAIN bots) \cap (DOMAIN bots') :
          /\ bots'[b].user = bots[b].user
          /\ bots[b].threeCommasBotId # Null =>
                bots'[b].threeCommasBotId = bots[b].threeCommasBotId]_vars

\* C21: the remote bot id of a stored record, when not null, is an id the
\* platform issued in answer to a create call, and no other record holds it
C21_RemoteIdFromRemoteCreate ==
    \A b \in DOMAIN bots :
        LET t == bots[b].threeCommasBotId IN
        t # Null =>
            /\ t \in RemoteIds
            /\ remote[t] # "none"
            /\ \A c \in (DOMAIN bots) \ {b} : bots[c].threeCommasBotId # t

\* C22: no stored record has status error
C22_ErrorStatusUnreachable ==
    \A b \in DOMAIN bots : bots[b].status # "error"

\* C23: in the scenario create, pause, start, emergency-stop, delete, no
\* request of the owner on the stored bot is refused, and each request
\* whose remote call succeeded leaves, in order: the record running with
\* the remote id the create returned; paused; running; stopped; no record
\* under that id
C23_ScenarioYieldsStatuses ==
    [][\A p \in Procs :
          /\ (/\ req[p].pc = "idle"
              /\ req'[p].op \in {"pauseBot", "startBot", "emergencyStopBot",
                                  "deleteBot"}
              /\ req'[p].botId \in DOMAIN bots)
                => req'[p].pc = "remote"
          /\ (req[p].pc = "save" /\ req'[p].pc = "done") =>
                CASE req[p].op = "createBot" ->
                        /\ req'[p].status = 201
                        /\ req'[p].botId \in DOMAIN bots'
                        /\ bots'[req'[p].botId].status = "running"
                        /\ bots'[req'[p].botId].threeCommasBotId = req[p].tcId
                        /\ req[p].tcId # Null
                  [] req[p].op = "pauseBot" ->
                        /\ req'[p].status = 200
                        /\ bots'[req[p].botId].status = "paused"
                  [] req[p].op = "startBot" ->
                        /\ req'[p].status = 200
                        /\ bots'[req[p].botId].status = "running"
                  [] req[p].op = "emergencyStopBot" ->
                        /\ req'[p].status = 200
                        /\ bots'[req[p].botId].status = "stopped"
                  [] req[p].op = "deleteBot" ->
                        /\ req'[p].status = 200
                        /\ req[p].botId \notin DOMAIN bots'
                  [] OTHER -> FALSE]_vars

\* the whole scenario ran with every remote call succeeding
C23_Witness ==
    /\ Answered("p1", "deleteBot")
    /\ Answered("p2", "emergencyStopBot")
    /\ req["p1"].botId = req["p2"].botId
    /\ req["p1"].doc.status = "stopped"
    /\ req["p2"].doc.status = "running"
    /\ req["p1"].botId \notin DOMAIN bots
    /\ remote[req["p1"].doc.threeCommasBotId] = "deleted"

\* C26: a request has made at most one remote call, a request that is
\* about to make its remote call has made none, and a request whose call
\* was rejected or timed out is answered or, for deleteBot, goes on to the
\* local delete: it is never back before the remote call
C26_AtMostOneRemoteCall ==
    \A p \in Procs :
        /\ req[p].calls \in {0, 1}
        /\ req[p].pc = "remote" => (req[p].calls = 0 /\ req[p].outcome = "none")
        /\ RemoteFailed(p) =>
              \/ req[p].pc = "done"
              \/ req[p].op = "deleteBot" /\ req[p].pc = "save"

C26_Witness ==
    \E p \in Procs :
        /\ Done(p, "startBot")
        /\ req[p].outcome = "unreachable"
        /\ req[p].calls = 1
        /\ req[p].status = 400

\* C28: the string to sign is the API prefix, the path, "?" and the query
\* when the query is not empty, and the body when the body is not empty,
\* in this order
C28_StringToSignLayout ==
    \A c \in DOMAIN sign :
        sign[c].pc = "returned" =>
            sign[c].stringToSign =
                API_PREFIX \o sign[c].path
                    \o (IF Len(sign[c].query) > 0
                        THEN <<"?">> \o sign[c].query ELSE <<>>)
                    \o (IF Len(sign[c].body) > 0 THEN sign[c].body ELSE <<>>)

C28_Witness ==
    \E c \in DOMAIN sign :
        /\ sign[c].pc = "returned"
        /\ sign[c].query # <<>>
        /\ sign[c].body # <<>>
        /\ \E d \in DOMAIN sign :
              /\ sign[d].pc = "returned"
              /\ sign[d].query = <<>>
              /\ sign[d].body = <<>>

\* C29: two signing calls with the same path, query and body return the
\* same signature; two calls with the same path and query and different
\* bodies sign different strings
C29_SigningDeterministicBodySensitive ==
    \A c \in DOMAIN sign : \A d \in DOMAIN sign :
        (/\ sign[c].pc = "returned"
         /\ sign[d].pc = "returned"
         /\ sign[c].path = sign[d].path
         /\ sign[c].query = sign[d].query) =>
            /\ sign[c].body = sign[d].body =>
                  /\ sign[c].signature = sign[d].signature
                  /\ sign[c].stringToSign = sign[d].stringToSign
            /\ sign[c].body # sign[d].body =>
                  /\ sign[c].stringToSign # sign[d].stringToSign
                  /\ sign[c].signature.message # sign[d].signature.message

C29_Witness ==
    /\ DOMAIN sign = Calls
    /\ \A c \in Calls : sign[c].pc = "returned"
    /\ sign[1].path = sign[2].path
    /\ sign[1].query = sign[2].query
    /\ sign[1].body = <<"{", "}">>
    /\ sign[2].body = <<"{", "a", "}">>
    /\ sign[1].stringToSign # sign[2].stringToSign

\* C27: the body string given to the signer is the body the call transmits,
\* for the calls with a JSON payload and for the calls signed with an
\* empty body
C27_SignedBodyIsSentBody ==
    wire.pc = "sent" =>
        /\ wire.signedBody = wire.sentBody
        /\ wire.signature =
              Hmac(THREE_COMMAS_API_SECRET,
                   buildStringToSign(WirePath(wire.call), <<>>, wire.sentBody))

\* C30: validateBinanceAPI passes exactly when one of its tier calls
\* succeeded, and it reports failure only after all three calls failed
C30_PassesIffSomeTierSucceeds ==
    validation.pc = "returned" =>
        /\ validation.results.passed <=> validation.resolved # {}
        /\ ~validation.results.passed =>
              /\ validation.calls = Tiers
              /\ validation.resolved = {}

\* the status a lifecycle handler assigns before bot.save()
WrittenStatus(op) ==
    CASE op = "pauseBot" -> "paused"
      [] op = "startBot" -> "running"
      [] op = "emergencyStopBot" -> "stopped"

\* C24: two overlapping lifecycle requests on one bot both pass their
\* guards and call the platform, and whichever request performs its local
\* write last leaves its status in the record, whatever the order of the
\* remote calls: each bot.save() answered with 200 leaves the record with
\* the status that handler assigned
C24_LastLocalWriteWins ==
    [][\A p \in Procs :
          (/\ req[p].op \in {"pauseBot", "startBot", "emergencyStopBot"}
           /\ req[p].pc = "save"
           /\ req'[p].pc = "done"
           /\ req'[p].status = 200) =>
              /\ req[p].botId \in DOMAIN bots'
              /\ bots'[req[p].botId].status = WrittenStatus(req[p].op)]_vars

BotRequestOps ==
    {"pauseBot", "startBot", "emergencyStopBot", "updateBot", "deleteBot"}

\* a delete request of process q on another bot of the same owner has
\* removed the record that held the name n
FreedByDeleteOf(q, a, n) ==
    /\ req[q].op = "deleteBot"
    /\ req[q].pc = "done"
    /\ req[q].botId # a
    /\ req[q].botId \notin DOMAIN bots
    /\ req[q].doc.user = bots[a].user
    /\ req[q].doc.name = n

\* C25: requests on different bots do not interfere: the local write of a
\* pause, start, emergency-stop, update or delete request on bot A leaves
\* every other record as it was, and what it does to A does not depend on
\* a request on another bot: an update is never applied to A on the
\* strength of a delete of bot B, without which the unique index would
\* have refused it
C25_DifferentBotsDoNotInterfere ==
    [][\A p \in Procs :
          (/\ req[p].op \in BotRequestOps
           /\ req[p].pc = "save"
           /\ req'[p].pc = "done") =>
              LET a == req[p].botId IN
              /\ \A b \in DOMAIN bots \ {a} :
                    b \in DOMAIN bots' /\ bots'[b] = bots[b]
              /\ (/\ req[p].op = "updateBot"
                  /\ a \in DOMAIN bots
                  /\ a \in DOMAIN bots'
                  /\ bots'[a].name # bots[a].name) =>
                     ~\E q \in Procs \ {p} :
                         FreedByDeleteOf(q, a, bots'[a].name)]_vars

\* C31: the tiers are tried in the order account, ping, time; a tier is
\* tried only after the one before it was rejected; the function returns
\* at the first tier that succeeds, and permissionLevel is full, basic or
\* minimal for the tier that succeeded
C31_TiersInOrder ==
    validation.pc # "none" =>
        /\ validation.calls \in {{}, {"account"}, {"account", "ping"}, Tiers}
        /\ "ping" \in validation.calls => validation.account = "rejected"
        /\ "time" \in validation.calls => validation.ping = "rejected"
        /\ validation.pc = "ping" => validation.calls = {"account", "ping"}
        /\ validation.pc = "time" => validation.calls = Tiers
        /\ validation.pc = "returned" =>
              /\ validation.results.permissionLevel = "full" <=>
                    /\ validation.calls = {"account"}
                    /\ validation.account = "commission"
              /\ validation.results.permissionLevel = "basic" <=>
                    /\ validation.calls = {"account", "ping"}
                    /\ validation.ping = "200"
              /\ validation.results.permissionLevel = "minimal" <=>
                    /\ validation.calls = Tiers
                    /\ validation.time = "200"
              /\ validation.results.passed <=>
                    validation.results.permissionLevel
                        \in {"full", "basic", "minimal"}

C31_Witness ==
    /\ validation.pc = "returned"
    /\ validation.calls = Tiers
    /\ validation.account = "rejected"
    /\ validation.ping = "rejected"
    /\ validation.results.permissionLevel = "minimal"
    /\ validation.results.passed

\* the user document of u is written in this step
UserWritten(u) ==
    \/ u \notin DOMAIN users
    \/ users'[u] # users[u]
    \/ credentials'[u] # credentials[u]

C33_DisconnectClearsCredentialAndLinkage ==
    [][\A p \in Procs :
          /\ (/\ req[p].op = "disconnectBinance"
              /\ req[p].pc = "save"
              /\ req'[p].status = 200
              /\ req[p].userId \in DOMAIN users) =>
                 /\ credentials'[req[p].userId] = NoCredential
                 /\ users'[req[p].userId] = Null
          /\ (/\ req[p].pc = "idle"
              /\ req'[p].op = "createBot"
              /\ req'[p].userId \in DOMAIN credentials
              /\ credentials[req'[p].userId] = NoCredential) =>
                 /\ req'[p].pc = "done"
                 /\ req'[p].status = 400
                 /\ req'[p].calls = 0]_vars

\* the deals of the list whose profit is above zero
Winners(deals) ==
    {i \in DOMAIN deals :
        "final_profit" \in DOMAIN deals[i] /\ deals[i].final_profit > 0}

\* C34: winRate is 100 times the number of deals with profit > 0 divided
\* by the number of deals, and 0 for the empty list; the empty list gives
\* 0 and profits 5 and -2 give 50; bestDeal is not below worstDeal, and
\* both are 0 for the empty list
C34_WinRateAndExtremes ==
    perf.pc = "computed" =>
        LET n == Len(perf.deals)
            p == perf.performance
        IN  /\ n > 0 =>
                  p.winRate.num * n = 100 * Cardinality(Winners(perf.deals))
                                          * p.winRate.den
            /\ n = 0 => p.winRate.num = 0 /\ p.bestDeal = 0 /\ p.worstDeal = 0
            /\ p.winRate.den > 0
            /\ perf.deals = <<[final_profit |-> 5], [final_profit |-> -2]>> =>
                  p.winRate.num = 50 * p.winRate.den
            /\ p.bestDeal >= p.worstDeal
            /\ n > 0 => \A i \in 1..n :
                  /\ p.bestDeal >= FinalProfit(perf.deals[i])
                  /\ p.worstDeal <= FinalProfit(perf.deals[i])

C34_Witness ==
    /\ perf.pc = "computed"
    /\ perf.deals = <<[final_profit |-> 5], [final_profit |-> -2]>>
    /\ perf.performance.winRate = [num |-> 100, den |-> 2]
    /\ perf.performance.bestDeal = 5
    /\ perf.performance.worstDeal = -2

\* the transitions of the lifecycle table
LifecycleTable ==
    {<<"running", "paused">>, <<"paused", "running">>,
     <<"stopped", "running">>}
        \cup {<<st, "stopped">> : st \in Statuses}

\* C35: every change of a stored record's status is a transition of the
\* lifecycle table, under any interleaving of requests on the same bot;
\* in particular a status never goes from stopped to paused or from error
\* to running or paused
C35_StatusChangesFollowTable ==
    [][\A b \in (DOMAIN bots) \cap (DOMAIN bots') :
          bots'[b].status # bots[b].status =>
              <<bots[b].status, bots'[b].status>> \in LifecycleTable]_vars

\* createBot requests of one owner for one bot name
SameCreate(p, q) ==
    /\ req[p].op = "createBot"
    /\ req[q].op = "createBot"
    /\ req[p].userId = req[q].userId
    /\ req[p].body.botName = req[q].body.botName

\* C36: of two overlapping createBot requests with the same owner and
\* botName at most one issues the remote create call, and a createBot
\* whose remote call created a bot ends with a record holding its id
C36_OneRemoteCreatePerName ==
    [][\A q \in Procs :
          /\ (/\ req[q].op = "createBot"
              /\ req[q].pc = "remote"
              /\ req'[q].calls = 1) =>
                 ~\E p \in Procs \ {q} :
                     /\ SameCreate(p, q)
                     /\ req[p].pc = "save"
                     /\ req[p].calls = 1
          /\ (/\ req[q].op = "createBot"
              /\ req[q].pc = "save"
              /\ req[q].outcome = "success"
              /\ req'[q].pc = "done") =>
                 \E b \in DOMAIN bots' :
                     bots'[b].threeCommasBotId = req[q].tcId]_vars

\* C37: when the remote call of pauseBot, startBot or emergencyStopBot has
\* succeeded, the handler answers with success and the record has the
\* status paused, running or stopped, also when the repository write can
\* fail
C37_RemoteSuccessIsRecordedLocally ==
    [][\A p \in Procs :
          (/\ req[p].op \in {"pauseBot", "startBot", "emergencyStopBot"}
           /\ req[p].pc = "save"
           /\ req[p].outcome = "success"
           /\ req'[p].pc = "done") =>
              /\ req'[p].status = 200
              /\ req[p].botId \in DOMAIN bots'
              /\ bots'[req[p].botId].status = WrittenStatus(req[p].op)]_vars

\* C38: a record deleteBot has removed never exists again: a pauseBot,
\* startBot, emergencyStopBot or updateBot that read it before the deletion
\* and writes after it does not re-create it (local ids are not reused)
C38_DeletedRecordStaysDeleted ==
    [][\A b \in BotIds :
          (b < nextId /\ b \notin DOMAIN bots) => b \notin DOMAIN bots']_vars

C38_Witness ==
    /\ Done("p2", "deleteBot")
    /\ req["p2"].status = 200
    /\ req["p1"].pc = "done"
    /\ req["p1"].op \in {"pauseBot", "startBot", "emergencyStopBot"}
    /\ req["p1"].botId = req["p2"].botId
    /\ req["p1"].doc # NoDoc
    /\ req["p1"].outcome = "success"
    /\ req["p1"].status = 403
    /\ req["p1"].botId \notin DOMAIN bots
    /\ req["p1"].botId < nextId

\* a request whose handler is between its first await and its response
InFlight(p) == req[p].pc \in {"remote", "save"}

\* C39: every invocation of a lifecycle handler sends exactly one response:
\* a handler in flight reaches its response once its awaited calls settle;
\* a handler carries a response status exactly when it has responded; the
\* response sent is never replaced by a second one, and a handler ends only
\* after it has responded
C39_ExactlyOneResponse ==
    /\ [][\A p \in Procs :
            /\ req'[p].status # 0 <=> req'[p].pc = "done"
            /\ req[p].pc = "done" => req'[p] \in {req[p], Idle}
            /\ (req[p].pc # "idle" /\ req'[p].pc = "idle")
                  => req[p].pc = "done"]_vars
    /\ \A p \in Procs : InFlight(p) ~> (req[p].pc = "done")

\* a write the repository rejected after the remote call succeeded was
\* answered by the outer catch, and so was a remote call that failed
C39_Witness ==
    /\ req["p1"].pc = "done"
    /\ req["p1"].op \in {"pauseBot", "startBot", "emergencyStopBot"}
    /\ req["p1"].error = "StorageError"
    /\ req["p1"].outcome = "success"
    /\ req["p1"].status = 403

====
